---------------------------- MODULE Spec2Model ----------------------------
(***************************************************************************)
(* Model of the clothing analysis backend (src/ai_backend): the region     *)
(* colour analysers, the attribute heuristics, the clothing type / style   *)
(* taxonomy and the two-phase item selection.                              *)
(*                                                                         *)
(* Strings are sequences of one-character strings, so that lower() and the *)
(* substring tests of the code are computed, not assumed.                  *)
(***************************************************************************)
EXTENDS Integers, Sequences, FiniteSets, TLC

VARIABLES op, arg, ret, pending, earlier, caller_image, fields, alarm, pc

vars == <<op, arg, ret, pending, earlier, caller_image, fields, alarm, pc>>

-----------------------------------------------------------------------------
(* str.lower() and the substring test (in) on strings                      *)

LowerChar(c) ==
  CASE c = "A" -> "a" [] c = "B" -> "b" [] c = "C" -> "c" [] c = "D" -> "d"
    [] c = "E" -> "e" [] c = "F" -> "f" [] c = "G" -> "g" [] c = "H" -> "h"
    [] c = "I" -> "i" [] c = "J" -> "j" [] c = "K" -> "k" [] c = "L" -> "l"
    [] c = "M" -> "m" [] c = "N" -> "n" [] c = "O" -> "o" [] c = "P" -> "p"
    [] c = "Q" -> "q" [] c = "R" -> "r" [] c = "S" -> "s" [] c = "T" -> "t"
    [] c = "U" -> "u" [] c = "V" -> "v" [] c = "W" -> "w" [] c = "X" -> "x"
    [] c = "Y" -> "y" [] c = "Z" -> "z" [] OTHER -> c

Lower(s) == [i \in 1..Len(s) |-> LowerChar(s[i])]

\* Python <<"n","e","e","d","l","e"," ","i","n"," ","h","a","y">> for two strings
Contains(hay, needle) ==
  \E i \in 0..(Len(hay) - Len(needle)) : SubSeq(hay, i + 1, i + Len(needle)) = needle

\* any(term in text for term in terms)
AnyIn(terms, text) == \E i \in 1..Len(terms) : Contains(text, terms[i])

-----------------------------------------------------------------------------
(* FashionClassificationSystem: the static tables                          *)

clothing_types ==
  <<
  \* 't-shirt': ['t-shirt', 'tee', 'tank', 'tank top', 'basic tee']
  [type |-> <<"t","-","s","h","i","r","t">>,
   variations |-> << <<"t","-","s","h","i","r","t">>,
                    <<"t","e","e">>,
                    <<"t","a","n","k">>,
                    <<"t","a","n","k"," ","t","o","p">>,
                    <<"b","a","s","i","c"," ","t","e","e">> >>],
  \* 'button-shirt': ['button-up', 'dress shirt', 'button shirt', 'formal shirt']
  [type |-> <<"b","u","t","t","o","n","-","s","h","i","r","t">>,
   variations |-> << <<"b","u","t","t","o","n","-","u","p">>,
                    <<"d","r","e","s","s"," ","s","h","i","r","t">>,
                    <<"b","u","t","t","o","n"," ","s","h","i","r","t">>,
                    <<"f","o","r","m","a","l"," ","s","h","i","r","t">> >>],
  \* 'polo': ['polo shirt', 'polo', 'collared shirt']
  [type |-> <<"p","o","l","o">>,
   variations |-> << <<"p","o","l","o"," ","s","h","i","r","t">>,
                    <<"p","o","l","o">>,
                    <<"c","o","l","l","a","r","e","d"," ","s","h","i","r","t">> >>],
  \* 'hoodie': ['hoodie', 'sweatshirt', 'pullover']
  [type |-> <<"h","o","o","d","i","e">>,
   variations |-> << <<"h","o","o","d","i","e">>,
                    <<"s","w","e","a","t","s","h","i","r","t">>,
                    <<"p","u","l","l","o","v","e","r">> >>],
  \* 'sweater': ['sweater', 'jumper', 'cardigan', 'knitwear']
  [type |-> <<"s","w","e","a","t","e","r">>,
   variations |-> << <<"s","w","e","a","t","e","r">>,
                    <<"j","u","m","p","e","r">>,
                    <<"c","a","r","d","i","g","a","n">>,
                    <<"k","n","i","t","w","e","a","r">> >>],
  \* 'blazer': ['blazer', 'sport coat', 'suit jacket']
  [type |-> <<"b","l","a","z","e","r">>,
   variations |-> << <<"b","l","a","z","e","r">>,
                    <<"s","p","o","r","t"," ","c","o","a","t">>,
                    <<"s","u","i","t"," ","j","a","c","k","e","t">> >>],
  \* 'jacket': ['jacket', 'coat', 'outerwear']
  [type |-> <<"j","a","c","k","e","t">>,
   variations |-> << <<"j","a","c","k","e","t">>,
                    <<"c","o","a","t">>,
                    <<"o","u","t","e","r","w","e","a","r">> >>],
  \* 'blouse': ['blouse', 'silk shirt', 'dressy top']
  [type |-> <<"b","l","o","u","s","e">>,
   variations |-> << <<"b","l","o","u","s","e">>,
                    <<"s","i","l","k"," ","s","h","i","r","t">>,
                    <<"d","r","e","s","s","y"," ","t","o","p">> >>],
  \* 'crop-top': ['crop top', 'cropped shirt', 'belly shirt']
  [type |-> <<"c","r","o","p","-","t","o","p">>,
   variations |-> << <<"c","r","o","p"," ","t","o","p">>,
                    <<"c","r","o","p","p","e","d"," ","s","h","i","r","t">>,
                    <<"b","e","l","l","y"," ","s","h","i","r","t">> >>],
  \* 'tube-top': ['tube top', 'bandeau', 'strapless top']
  [type |-> <<"t","u","b","e","-","t","o","p">>,
   variations |-> << <<"t","u","b","e"," ","t","o","p">>,
                    <<"b","a","n","d","e","a","u">>,
                    <<"s","t","r","a","p","l","e","s","s"," ","t","o","p">> >>],
  \* 'jeans': ['jeans', 'denim pants', 'blue jeans']
  [type |-> <<"j","e","a","n","s">>,
   variations |-> << <<"j","e","a","n","s">>,
                    <<"d","e","n","i","m"," ","p","a","n","t","s">>,
                    <<"b","l","u","e"," ","j","e","a","n","s">> >>],
  \* 'cargo-pants': ['cargo pants', 'utility pants', 'tactical pants']
  [type |-> <<"c","a","r","g","o","-","p","a","n","t","s">>,
   variations |-> << <<"c","a","r","g","o"," ","p","a","n","t","s">>,
                    <<"u","t","i","l","i","t","y"," ","p","a","n","t","s">>,
                    <<"t","a","c","t","i","c","a","l"," ","p","a","n","t","s">> >>],
  \* 'dress-pants': ['dress pants', 'slacks', 'trousers', 'formal pants']
  [type |-> <<"d","r","e","s","s","-","p","a","n","t","s">>,
   variations |-> << <<"d","r","e","s","s"," ","p","a","n","t","s">>,
                    <<"s","l","a","c","k","s">>,
                    <<"t","r","o","u","s","e","r","s">>,
                    <<"f","o","r","m","a","l"," ","p","a","n","t","s">> >>],
  \* 'chinos': ['chinos', 'khakis', 'casual pants']
  [type |-> <<"c","h","i","n","o","s">>,
   variations |-> << <<"c","h","i","n","o","s">>,
                    <<"k","h","a","k","i","s">>,
                    <<"c","a","s","u","a","l"," ","p","a","n","t","s">> >>],
  \* 'shorts': ['shorts', 'short pants']
  [type |-> <<"s","h","o","r","t","s">>,
   variations |-> << <<"s","h","o","r","t","s">>,
                    <<"s","h","o","r","t"," ","p","a","n","t","s">> >>],
  \* 'cargo-shorts': ['cargo shorts', 'utility shorts']
  [type |-> <<"c","a","r","g","o","-","s","h","o","r","t","s">>,
   variations |-> << <<"c","a","r","g","o"," ","s","h","o","r","t","s">>,
                    <<"u","t","i","l","i","t","y"," ","s","h","o","r","t","s">> >>],
  \* 'skirt': ['skirt', 'mini skirt', 'maxi skirt', 'pencil skirt']
  [type |-> <<"s","k","i","r","t">>,
   variations |-> << <<"s","k","i","r","t">>,
                    <<"m","i","n","i"," ","s","k","i","r","t">>,
                    <<"m","a","x","i"," ","s","k","i","r","t">>,
                    <<"p","e","n","c","i","l"," ","s","k","i","r","t">> >>],
  \* 'leggings': ['leggings', 'tights', 'yoga pants']
  [type |-> <<"l","e","g","g","i","n","g","s">>,
   variations |-> << <<"l","e","g","g","i","n","g","s">>,
                    <<"t","i","g","h","t","s">>,
                    <<"y","o","g","a"," ","p","a","n","t","s">> >>],
  \* 'joggers': ['joggers', 'track pants', 'sweatpants']
  [type |-> <<"j","o","g","g","e","r","s">>,
   variations |-> << <<"j","o","g","g","e","r","s">>,
                    <<"t","r","a","c","k"," ","p","a","n","t","s">>,
                    <<"s","w","e","a","t","p","a","n","t","s">> >>],
  \* 'dress': ['dress', 'gown', 'frock']
  [type |-> <<"d","r","e","s","s">>,
   variations |-> << <<"d","r","e","s","s">>,
                    <<"g","o","w","n">>,
                    <<"f","r","o","c","k">> >>],
  \* 'maxi-dress': ['maxi dress', 'long dress']
  [type |-> <<"m","a","x","i","-","d","r","e","s","s">>,
   variations |-> << <<"m","a","x","i"," ","d","r","e","s","s">>,
                    <<"l","o","n","g"," ","d","r","e","s","s">> >>],
  \* 'mini-dress': ['mini dress', 'short dress']
  [type |-> <<"m","i","n","i","-","d","r","e","s","s">>,
   variations |-> << <<"m","i","n","i"," ","d","r","e","s","s">>,
                    <<"s","h","o","r","t"," ","d","r","e","s","s">> >>],
  \* 'cocktail-dress': ['cocktail dress', 'party dress']
  [type |-> <<"c","o","c","k","t","a","i","l","-","d","r","e","s","s">>,
   variations |-> << <<"c","o","c","k","t","a","i","l"," ","d","r","e","s","s">>,
                    <<"p","a","r","t","y"," ","d","r","e","s","s">> >>],
  \* 'sneakers': ['sneakers', 'trainers', 'athletic shoes']
  [type |-> <<"s","n","e","a","k","e","r","s">>,
   variations |-> << <<"s","n","e","a","k","e","r","s">>,
                    <<"t","r","a","i","n","e","r","s">>,
                    <<"a","t","h","l","e","t","i","c"," ","s","h","o","e","s">> >>],
  \* 'boots': ['boots', 'ankle boots', 'combat boots']
  [type |-> <<"b","o","o","t","s">>,
   variations |-> << <<"b","o","o","t","s">>,
                    <<"a","n","k","l","e"," ","b","o","o","t","s">>,
                    <<"c","o","m","b","a","t"," ","b","o","o","t","s">> >>],
  \* 'loafers': ['loafers', 'slip-on shoes', 'moccasins']
  [type |-> <<"l","o","a","f","e","r","s">>,
   variations |-> << <<"l","o","a","f","e","r","s">>,
                    <<"s","l","i","p","-","o","n"," ","s","h","o","e","s">>,
                    <<"m","o","c","c","a","s","i","n","s">> >>],
  \* 'heels': ['high heels', 'pumps', 'stilettos']
  [type |-> <<"h","e","e","l","s">>,
   variations |-> << <<"h","i","g","h"," ","h","e","e","l","s">>,
                    <<"p","u","m","p","s">>,
                    <<"s","t","i","l","e","t","t","o","s">> >>],
  \* 'sandals': ['sandals', 'flip-flops', 'slides']
  [type |-> <<"s","a","n","d","a","l","s">>,
   variations |-> << <<"s","a","n","d","a","l","s">>,
                    <<"f","l","i","p","-","f","l","o","p","s">>,
                    <<"s","l","i","d","e","s">> >>],
  \* 'hat': ['hat', 'cap', 'beanie', 'baseball cap']
  [type |-> <<"h","a","t">>,
   variations |-> << <<"h","a","t">>,
                    <<"c","a","p">>,
                    <<"b","e","a","n","i","e">>,
                    <<"b","a","s","e","b","a","l","l"," ","c","a","p">> >>],
  \* 'bag': ['bag', 'handbag', 'purse', 'backpack']
  [type |-> <<"b","a","g">>,
   variations |-> << <<"b","a","g">>,
                    <<"h","a","n","d","b","a","g">>,
                    <<"p","u","r","s","e">>,
                    <<"b","a","c","k","p","a","c","k">> >>],
  \* 'belt': ['belt', 'waist belt', 'leather belt']
  [type |-> <<"b","e","l","t">>,
   variations |-> << <<"b","e","l","t">>,
                    <<"w","a","i","s","t"," ","b","e","l","t">>,
                    <<"l","e","a","t","h","e","r"," ","b","e","l","t">> >>]
  >>

style_mappings ==
  <<
  \* 'casual': ['t-shirt', 'jeans', 'hoodie', 'sneakers', 'shorts', 'cargo-shorts', 'joggers', 'tank-top', 'polo', 'chinos', 'sandals', 'cap']
  [style |-> <<"c","a","s","u","a","l">>,
   items |-> << <<"t","-","s","h","i","r","t">>,
               <<"j","e","a","n","s">>,
               <<"h","o","o","d","i","e">>,
               <<"s","n","e","a","k","e","r","s">>,
               <<"s","h","o","r","t","s">>,
               <<"c","a","r","g","o","-","s","h","o","r","t","s">>,
               <<"j","o","g","g","e","r","s">>,
               <<"t","a","n","k","-","t","o","p">>,
               <<"p","o","l","o">>,
               <<"c","h","i","n","o","s">>,
               <<"s","a","n","d","a","l","s">>,
               <<"c","a","p">> >>],
  \* 'classy-elegant': ['blazer', 'dress-pants', 'button-shirt', 'blouse', 'pencil-skirt', 'cocktail-dress', 'heels', 'loafers', 'silk-blouse', 'tailored-pants']
  [style |-> <<"c","l","a","s","s","y","-","e","l","e","g","a","n","t">>,
   items |-> << <<"b","l","a","z","e","r">>,
               <<"d","r","e","s","s","-","p","a","n","t","s">>,
               <<"b","u","t","t","o","n","-","s","h","i","r","t">>,
               <<"b","l","o","u","s","e">>,
               <<"p","e","n","c","i","l","-","s","k","i","r","t">>,
               <<"c","o","c","k","t","a","i","l","-","d","r","e","s","s">>,
               <<"h","e","e","l","s">>,
               <<"l","o","a","f","e","r","s">>,
               <<"s","i","l","k","-","b","l","o","u","s","e">>,
               <<"t","a","i","l","o","r","e","d","-","p","a","n","t","s">> >>],
  \* 'business-office': ['blazer', 'dress-pants', 'button-shirt', 'blouse', 'suit-jacket', 'formal-shirt', 'pencil-skirt', 'dress-shoes', 'briefcase']
  [style |-> <<"b","u","s","i","n","e","s","s","-","o","f","f","i","c","e">>,
   items |-> << <<"b","l","a","z","e","r">>,
               <<"d","r","e","s","s","-","p","a","n","t","s">>,
               <<"b","u","t","t","o","n","-","s","h","i","r","t">>,
               <<"b","l","o","u","s","e">>,
               <<"s","u","i","t","-","j","a","c","k","e","t">>,
               <<"f","o","r","m","a","l","-","s","h","i","r","t">>,
               <<"p","e","n","c","i","l","-","s","k","i","r","t">>,
               <<"d","r","e","s","s","-","s","h","o","e","s">>,
               <<"b","r","i","e","f","c","a","s","e">> >>],
  \* 'business-casual': ['chinos', 'loafers', 'cardigan', 'polo', 'blouse', 'khakis', 'casual-blazer', 'dress-pants', 'button-shirt']
  [style |-> <<"b","u","s","i","n","e","s","s","-","c","a","s","u","a","l">>,
   items |-> << <<"c","h","i","n","o","s">>,
               <<"l","o","a","f","e","r","s">>,
               <<"c","a","r","d","i","g","a","n">>,
               <<"p","o","l","o">>,
               <<"b","l","o","u","s","e">>,
               <<"k","h","a","k","i","s">>,
               <<"c","a","s","u","a","l","-","b","l","a","z","e","r">>,
               <<"d","r","e","s","s","-","p","a","n","t","s">>,
               <<"b","u","t","t","o","n","-","s","h","i","r","t">> >>],
  \* 'streetwear': ['t-shirt', 'hoodie', 'sneakers', 'cap', 'graphic-tee', 'joggers', 'track-jacket', 'oversized-hoodie', 'basketball-shorts']
  [style |-> <<"s","t","r","e","e","t","w","e","a","r">>,
   items |-> << <<"t","-","s","h","i","r","t">>,
               <<"h","o","o","d","i","e">>,
               <<"s","n","e","a","k","e","r","s">>,
               <<"c","a","p">>,
               <<"g","r","a","p","h","i","c","-","t","e","e">>,
               <<"j","o","g","g","e","r","s">>,
               <<"t","r","a","c","k","-","j","a","c","k","e","t">>,
               <<"o","v","e","r","s","i","z","e","d","-","h","o","o","d","i","e">>,
               <<"b","a","s","k","e","t","b","a","l","l","-","s","h","o","r","t","s">> >>],
  \* 'athleisure': ['leggings', 'joggers', 'track-jacket', 'athletic-shoes', 'sports-bra', 'tank-top', 'sweatshirt', 'running-shoes', 'yoga-pants']
  [style |-> <<"a","t","h","l","e","i","s","u","r","e">>,
   items |-> << <<"l","e","g","g","i","n","g","s">>,
               <<"j","o","g","g","e","r","s">>,
               <<"t","r","a","c","k","-","j","a","c","k","e","t">>,
               <<"a","t","h","l","e","t","i","c","-","s","h","o","e","s">>,
               <<"s","p","o","r","t","s","-","b","r","a">>,
               <<"t","a","n","k","-","t","o","p">>,
               <<"s","w","e","a","t","s","h","i","r","t">>,
               <<"r","u","n","n","i","n","g","-","s","h","o","e","s">>,
               <<"y","o","g","a","-","p","a","n","t","s">> >>],
  \* 'bohemian': ['maxi-dress', 'flowy-dress', 'peasant-blouse', 'fringe-jacket', 'sandals', 'wide-leg-pants', 'crochet-top', 'earthy-tones']
  [style |-> <<"b","o","h","e","m","i","a","n">>,
   items |-> << <<"m","a","x","i","-","d","r","e","s","s">>,
               <<"f","l","o","w","y","-","d","r","e","s","s">>,
               <<"p","e","a","s","a","n","t","-","b","l","o","u","s","e">>,
               <<"f","r","i","n","g","e","-","j","a","c","k","e","t">>,
               <<"s","a","n","d","a","l","s">>,
               <<"w","i","d","e","-","l","e","g","-","p","a","n","t","s">>,
               <<"c","r","o","c","h","e","t","-","t","o","p">>,
               <<"e","a","r","t","h","y","-","t","o","n","e","s">> >>],
  \* 'minimalist': ['simple-tee', 'straight-pants', 'clean-blazer', 'white-shirt', 'black-pants', 'neutral-dress', 'simple-sneakers']
  [style |-> <<"m","i","n","i","m","a","l","i","s","t">>,
   items |-> << <<"s","i","m","p","l","e","-","t","e","e">>,
               <<"s","t","r","a","i","g","h","t","-","p","a","n","t","s">>,
               <<"c","l","e","a","n","-","b","l","a","z","e","r">>,
               <<"w","h","i","t","e","-","s","h","i","r","t">>,
               <<"b","l","a","c","k","-","p","a","n","t","s">>,
               <<"n","e","u","t","r","a","l","-","d","r","e","s","s">>,
               <<"s","i","m","p","l","e","-","s","n","e","a","k","e","r","s">> >>],
  \* 'preppy': ['polo', 'pleated-skirt', 'loafers', 'cardigan', 'khakis', 'button-down', 'tennis-shoes', 'blazer']
  [style |-> <<"p","r","e","p","p","y">>,
   items |-> << <<"p","o","l","o">>,
               <<"p","l","e","a","t","e","d","-","s","k","i","r","t">>,
               <<"l","o","a","f","e","r","s">>,
               <<"c","a","r","d","i","g","a","n">>,
               <<"k","h","a","k","i","s">>,
               <<"b","u","t","t","o","n","-","d","o","w","n">>,
               <<"t","e","n","n","i","s","-","s","h","o","e","s">>,
               <<"b","l","a","z","e","r">> >>],
  \* 'grunge': ['flannel', 'ripped-jeans', 'band-tee', 'combat-boots', 'leather-jacket', 'torn-pants', 'oversized-shirt']
  [style |-> <<"g","r","u","n","g","e">>,
   items |-> << <<"f","l","a","n","n","e","l">>,
               <<"r","i","p","p","e","d","-","j","e","a","n","s">>,
               <<"b","a","n","d","-","t","e","e">>,
               <<"c","o","m","b","a","t","-","b","o","o","t","s">>,
               <<"l","e","a","t","h","e","r","-","j","a","c","k","e","t">>,
               <<"t","o","r","n","-","p","a","n","t","s">>,
               <<"o","v","e","r","s","i","z","e","d","-","s","h","i","r","t">> >>],
  \* 'vintage-retro': ['vintage-dress', 'flare-jeans', 'retro-tee', 'vintage-jacket', 'classic-sneakers', 'mom-jeans', 'vintage-blouse']
  [style |-> <<"v","i","n","t","a","g","e","-","r","e","t","r","o">>,
   items |-> << <<"v","i","n","t","a","g","e","-","d","r","e","s","s">>,
               <<"f","l","a","r","e","-","j","e","a","n","s">>,
               <<"r","e","t","r","o","-","t","e","e">>,
               <<"v","i","n","t","a","g","e","-","j","a","c","k","e","t">>,
               <<"c","l","a","s","s","i","c","-","s","n","e","a","k","e","r","s">>,
               <<"m","o","m","-","j","e","a","n","s">>,
               <<"v","i","n","t","a","g","e","-","b","l","o","u","s","e">> >>],
  \* 'y2k': ['baby-tee', 'low-rise-jeans', 'platform-shoes', 'metallic-top', 'mini-skirt', 'sparkly-accessories', 'crop-top']
  [style |-> <<"y","2","k">>,
   items |-> << <<"b","a","b","y","-","t","e","e">>,
               <<"l","o","w","-","r","i","s","e","-","j","e","a","n","s">>,
               <<"p","l","a","t","f","o","r","m","-","s","h","o","e","s">>,
               <<"m","e","t","a","l","l","i","c","-","t","o","p">>,
               <<"m","i","n","i","-","s","k","i","r","t">>,
               <<"s","p","a","r","k","l","y","-","a","c","c","e","s","s","o","r","i","e","s">>,
               <<"c","r","o","p","-","t","o","p">> >>],
  \* 'edgy-punk': ['leather-jacket', 'ripped-jeans', 'studded-belt', 'combat-boots', 'band-tee', 'plaid-pants', 'spiked-accessories']
  [style |-> <<"e","d","g","y","-","p","u","n","k">>,
   items |-> << <<"l","e","a","t","h","e","r","-","j","a","c","k","e","t">>,
               <<"r","i","p","p","e","d","-","j","e","a","n","s">>,
               <<"s","t","u","d","d","e","d","-","b","e","l","t">>,
               <<"c","o","m","b","a","t","-","b","o","o","t","s">>,
               <<"b","a","n","d","-","t","e","e">>,
               <<"p","l","a","i","d","-","p","a","n","t","s">>,
               <<"s","p","i","k","e","d","-","a","c","c","e","s","s","o","r","i","e","s">> >>],
  \* 'goth': ['black-dress', 'corset', 'platform-boots', 'black-lace', 'dark-makeup', 'black-jacket', 'gothic-accessories']
  [style |-> <<"g","o","t","h">>,
   items |-> << <<"b","l","a","c","k","-","d","r","e","s","s">>,
               <<"c","o","r","s","e","t">>,
               <<"p","l","a","t","f","o","r","m","-","b","o","o","t","s">>,
               <<"b","l","a","c","k","-","l","a","c","e">>,
               <<"d","a","r","k","-","m","a","k","e","u","p">>,
               <<"b","l","a","c","k","-","j","a","c","k","e","t">>,
               <<"g","o","t","h","i","c","-","a","c","c","e","s","s","o","r","i","e","s">> >>],
  \* 'chic': ['tailored-blazer', 'high-quality-jeans', 'silk-blouse', 'designer-bag', 'stylish-heels', 'trendy-dress', 'fashion-forward-pieces']
  [style |-> <<"c","h","i","c">>,
   items |-> << <<"t","a","i","l","o","r","e","d","-","b","l","a","z","e","r">>,
               <<"h","i","g","h","-","q","u","a","l","i","t","y","-","j","e","a","n","s">>,
               <<"s","i","l","k","-","b","l","o","u","s","e">>,
               <<"d","e","s","i","g","n","e","r","-","b","a","g">>,
               <<"s","t","y","l","i","s","h","-","h","e","e","l","s">>,
               <<"t","r","e","n","d","y","-","d","r","e","s","s">>,
               <<"f","a","s","h","i","o","n","-","f","o","r","w","a","r","d","-","p","i","e","c","e","s">> >>],
  \* 'romantic': ['floral-dress', 'ruffled-blouse', 'pastel-colors', 'lace-top', 'flowing-skirt', 'delicate-jewelry', 'soft-cardigan']
  [style |-> <<"r","o","m","a","n","t","i","c">>,
   items |-> << <<"f","l","o","r","a","l","-","d","r","e","s","s">>,
               <<"r","u","f","f","l","e","d","-","b","l","o","u","s","e">>,
               <<"p","a","s","t","e","l","-","c","o","l","o","r","s">>,
               <<"l","a","c","e","-","t","o","p">>,
               <<"f","l","o","w","i","n","g","-","s","k","i","r","t">>,
               <<"d","e","l","i","c","a","t","e","-","j","e","w","e","l","r","y">>,
               <<"s","o","f","t","-","c","a","r","d","i","g","a","n">> >>],
  \* 'cottagecore': ['flowy-dress', 'puff-sleeves', 'apron', 'peasant-blouse', 'midi-skirt', 'cardigans', 'vintage-inspired']
  [style |-> <<"c","o","t","t","a","g","e","c","o","r","e">>,
   items |-> << <<"f","l","o","w","y","-","d","r","e","s","s">>,
               <<"p","u","f","f","-","s","l","e","e","v","e","s">>,
               <<"a","p","r","o","n">>,
               <<"p","e","a","s","a","n","t","-","b","l","o","u","s","e">>,
               <<"m","i","d","i","-","s","k","i","r","t">>,
               <<"c","a","r","d","i","g","a","n","s">>,
               <<"v","i","n","t","a","g","e","-","i","n","s","p","i","r","e","d">> >>],
  \* 'artsy-eclectic': ['colorful-prints', 'unusual-silhouettes', 'bold-patterns', 'artistic-pieces', 'unique-combinations', 'statement-pieces']
  [style |-> <<"a","r","t","s","y","-","e","c","l","e","c","t","i","c">>,
   items |-> << <<"c","o","l","o","r","f","u","l","-","p","r","i","n","t","s">>,
               <<"u","n","u","s","u","a","l","-","s","i","l","h","o","u","e","t","t","e","s">>,
               <<"b","o","l","d","-","p","a","t","t","e","r","n","s">>,
               <<"a","r","t","i","s","t","i","c","-","p","i","e","c","e","s">>,
               <<"u","n","i","q","u","e","-","c","o","m","b","i","n","a","t","i","o","n","s">>,
               <<"s","t","a","t","e","m","e","n","t","-","p","i","e","c","e","s">> >>],
  \* 'avant-garde': ['architectural-shapes', 'asymmetrical-pieces', 'experimental-design', 'unconventional-silhouettes', 'futuristic-elements']
  [style |-> <<"a","v","a","n","t","-","g","a","r","d","e">>,
   items |-> << <<"a","r","c","h","i","t","e","c","t","u","r","a","l","-","s","h","a","p","e","s">>,
               <<"a","s","y","m","m","e","t","r","i","c","a","l","-","p","i","e","c","e","s">>,
               <<"e","x","p","e","r","i","m","e","n","t","a","l","-","d","e","s","i","g","n">>,
               <<"u","n","c","o","n","v","e","n","t","i","o","n","a","l","-","s","i","l","h","o","u","e","t","t","e","s">>,
               <<"f","u","t","u","r","i","s","t","i","c","-","e","l","e","m","e","n","t","s">> >>],
  \* 'resort-cruise': ['linen-sets', 'kaftans', 'straw-hats', 'flowy-pants', 'beach-dress', 'sandals', 'light-fabrics']
  [style |-> <<"r","e","s","o","r","t","-","c","r","u","i","s","e">>,
   items |-> << <<"l","i","n","e","n","-","s","e","t","s">>,
               <<"k","a","f","t","a","n","s">>,
               <<"s","t","r","a","w","-","h","a","t","s">>,
               <<"f","l","o","w","y","-","p","a","n","t","s">>,
               <<"b","e","a","c","h","-","d","r","e","s","s">>,
               <<"s","a","n","d","a","l","s">>,
               <<"l","i","g","h","t","-","f","a","b","r","i","c","s">> >>],
  \* 'evening-formal': ['gown', 'tuxedo', 'cocktail-dress', 'formal-suit', 'dress-shoes', 'elegant-heels', 'formal-accessories']
  [style |-> <<"e","v","e","n","i","n","g","-","f","o","r","m","a","l">>,
   items |-> << <<"g","o","w","n">>,
               <<"t","u","x","e","d","o">>,
               <<"c","o","c","k","t","a","i","l","-","d","r","e","s","s">>,
               <<"f","o","r","m","a","l","-","s","u","i","t">>,
               <<"d","r","e","s","s","-","s","h","o","e","s">>,
               <<"e","l","e","g","a","n","t","-","h","e","e","l","s">>,
               <<"f","o","r","m","a","l","-","a","c","c","e","s","s","o","r","i","e","s">> >>]
  >>

-----------------------------------------------------------------------------
(* FashionClassificationSystem._classify_clothing_type                     *)

\* first loop: index of the first type with a variation equal to the
\* lowercased label, 0 when the loop ends without returning
RECURSIVE DirectMatch(_, _)
DirectMatch(detected_lower, i) ==
  IF i > Len(clothing_types) THEN 0
  ELSE IF \E j \in 1..Len(clothing_types[i].variations) :
            Lower(clothing_types[i].variations[j]) = detected_lower
       THEN i
       ELSE DirectMatch(detected_lower, i + 1)

\* second loop: index of the first type with a variation that contains the
\* label or is contained in it
RECURSIVE FuzzyMatch(_, _)
FuzzyMatch(detected_lower, i) ==
  IF i > Len(clothing_types) THEN 0
  ELSE IF \E j \in 1..Len(clothing_types[i].variations) :
            \/ Contains(detected_lower, Lower(clothing_types[i].variations[j]))
            \/ Contains(Lower(clothing_types[i].variations[j]), detected_lower)
       THEN i
       ELSE FuzzyMatch(detected_lower, i + 1)

\* the if/elif chain on common terms; <<>> is never a result of the chain,
\* it stands for falling out of it
DefaultClassification(detected_lower) ==
  IF AnyIn(<<<<"s","h","i","r","t">>, <<"t","o","p">>, <<"b","l","o","u","s","e">>>>, detected_lower) THEN <<<<"t","-","s","h","i","r","t">>>>
  ELSE IF AnyIn(<<<<"p","a","n","t","s">>, <<"j","e","a","n","s">>, <<"t","r","o","u","s","e","r">>>>, detected_lower) THEN <<<<"j","e","a","n","s">>>>
  ELSE IF AnyIn(<<<<"d","r","e","s","s">>, <<"g","o","w","n">>>>, detected_lower) THEN <<<<"d","r","e","s","s">>>>
  ELSE IF AnyIn(<<<<"s","h","o","e">>, <<"b","o","o","t">>, <<"s","n","e","a","k","e","r">>>>, detected_lower) THEN <<<<"s","n","e","a","k","e","r","s">>>>
  ELSE IF AnyIn(<<<<"j","a","c","k","e","t">>, <<"c","o","a","t">>>>, detected_lower) THEN <<<<"j","a","c","k","e","t">>>>
  ELSE <<>>

\* the two loops in the other order, and the lowercased label on a total miss
classify_fuzzy_first(detected_label) ==
  LET detected_lower == Lower(detected_label)
      d == DirectMatch(detected_lower, 1)
      f == FuzzyMatch(detected_lower, 1)
      k == DefaultClassification(detected_lower)
  IN  IF f # 0 THEN clothing_types[f].type
      ELSE IF d # 0 THEN clothing_types[d].type
      ELSE IF k # <<>> THEN k[1]
      ELSE detected_lower

classify_clothing_type(detected_label) ==
  LET detected_lower == Lower(detected_label)
      d == DirectMatch(detected_lower, 1)
      f == FuzzyMatch(detected_lower, 1)
      k == DefaultClassification(detected_lower)
  IN  IF d # 0 THEN clothing_types[d].type
      ELSE IF f # 0 THEN clothing_types[f].type
      ELSE IF k # <<>> THEN k[1]
      ELSE detected_label

-----------------------------------------------------------------------------
(* FashionClassificationSystem._get_applicable_styles                      *)

\* a slip in the last branch: no default style
infer_styles_no_default(clothing_type) ==
  LET type_lower == Lower(clothing_type)
  IN  IF AnyIn(<<<<"t","-","s","h","i","r","t">>, <<"j","e","a","n","s">>, <<"h","o","o","d","i","e">>, <<"s","n","e","a","k","e","r","s">>>>, type_lower)
        THEN <<<<"c","a","s","u","a","l">>, <<"s","t","r","e","e","t","w","e","a","r">>>>
      ELSE IF AnyIn(<<<<"b","l","a","z","e","r">>, <<"d","r","e","s","s","-","p","a","n","t","s">>, <<"b","u","t","t","o","n","-","s","h","i","r","t">>>>, type_lower)
        THEN <<<<"b","u","s","i","n","e","s","s","-","o","f","f","i","c","e">>, <<"c","l","a","s","s","y","-","e","l","e","g","a","n","t">>>>
      ELSE IF AnyIn(<<<<"d","r","e","s","s">>, <<"g","o","w","n">>, <<"h","e","e","l","s">>>>, type_lower)
        THEN <<<<"c","l","a","s","s","y","-","e","l","e","g","a","n","t">>, <<"e","v","e","n","i","n","g","-","f","o","r","m","a","l">>>>
      ELSE <<>>

infer_styles_from_type(clothing_type) ==
  LET type_lower == Lower(clothing_type)
  IN  IF AnyIn(<<<<"t","-","s","h","i","r","t">>, <<"j","e","a","n","s">>, <<"h","o","o","d","i","e">>, <<"s","n","e","a","k","e","r","s">>>>, type_lower)
        THEN <<<<"c","a","s","u","a","l">>, <<"s","t","r","e","e","t","w","e","a","r">>>>
      ELSE IF AnyIn(<<<<"b","l","a","z","e","r">>, <<"d","r","e","s","s","-","p","a","n","t","s">>, <<"b","u","t","t","o","n","-","s","h","i","r","t">>>>, type_lower)
        THEN <<<<"b","u","s","i","n","e","s","s","-","o","f","f","i","c","e">>, <<"c","l","a","s","s","y","-","e","l","e","g","a","n","t">>>>
      ELSE IF AnyIn(<<<<"d","r","e","s","s">>, <<"g","o","w","n">>, <<"h","e","e","l","s">>>>, type_lower)
        THEN <<<<"c","l","a","s","s","y","-","e","l","e","g","a","n","t">>, <<"e","v","e","n","i","n","g","-","f","o","r","m","a","l">>>>
      ELSE IF AnyIn(<<<<"a","t","h","l","e","t","i","c">>, <<"s","p","o","r","t","s">>, <<"g","y","m">>>>, type_lower)
        THEN <<<<"a","t","h","l","e","i","s","u","r","e">>>>
      ELSE IF AnyIn(<<<<"v","i","n","t","a","g","e">>, <<"r","e","t","r","o">>>>, type_lower)
        THEN <<<<"v","i","n","t","a","g","e","-","r","e","t","r","o">>>>
      ELSE <<<<"c","a","s","u","a","l">>>>

\* the loop over style_mappings.items(), appending each style whose item
\* list holds the type
RECURSIVE DirectStyles(_, _)
DirectStyles(clothing_type, i) ==
  IF i > Len(style_mappings) THEN <<>>
  ELSE (IF \E j \in 1..Len(style_mappings[i].items) :
              style_mappings[i].items[j] = clothing_type
        THEN <<style_mappings[i].style>> ELSE <<>>)
       \o DirectStyles(clothing_type, i + 1)

\* a slip: the inferred styles are appended to the direct ones
get_applicable_styles_merged(clothing_type) ==
  DirectStyles(clothing_type, 1) \o infer_styles_from_type(clothing_type)

get_applicable_styles(clothing_type) ==
  LET applicable_styles == DirectStyles(clothing_type, 1)
  IN  IF applicable_styles = <<>> THEN infer_styles_from_type(clothing_type)
      ELSE applicable_styles

-----------------------------------------------------------------------------
(* The inputs of the taxonomy operations                                   *)

TableKeys == {clothing_types[i].type : i \in 1..Len(clothing_types)}

Variations ==
  UNION {{clothing_types[i].variations[j] : j \in 1..Len(clothing_types[i].variations)} :
         i \in 1..Len(clothing_types)}

StyleKeys == {style_mappings[i].style : i \in 1..Len(style_mappings)}

StyleItems ==
  UNION {{style_mappings[i].items[j] : j \in 1..Len(style_mappings[i].items)} :
         i \in 1..Len(style_mappings)}

\* labels of the upstream detector (COCO names, the labels of the person
\* fallback and of the basic path) and strings that exercise every stage
RawLabels ==
  {<<"p","e","r","s","o","n">>, <<"t","i","e">>, <<"h","a","n","d","b","a","g">>, <<"b","a","c","k","p","a","c","k">>, <<"s","u","i","t","c","a","s","e">>, <<"s","p","o","r","t","s"," ","b","a","l","l">>, <<"u","m","b","r","e","l","l","a">>,
   <<"s","h","i","r","t">>, <<"p","a","n","t","s">>, <<"s","h","o","e","s">>, <<"c","l","o","t","h","i","n","g","_","i","t","e","m">>, <<"o","v","e","r","s","h","i","r","t">>, <<"s","n","o","w","p","a","n","t","s">>,
   <<"h","o","r","s","e","s","h","o","e">>, <<"r","a","i","n","c","o","a","t">>, <<"J","e","a","n","s">>, <<"T","-","S","h","i","r","t">>, <<"C","a","r","g","o"," ","S","h","o","r","t","s">>, <<"U","m","b","r","e","l","l","a">>,
   <<"X","Y","Z">>, <<"g","y","m"," ","w","e","a","r">>, <<"r","e","t","r","o">>, <<>>}

Labels == TableKeys \cup Variations \cup RawLabels

\* FashionClassificationSystem._infer_clothing_type returns one of these
InferredTypes == {<<"d","r","e","s","s">>, <<"p","a","n","t","s">>, <<"t","-","s","h","i","r","t">>}

\* what _classify_clothing_type returns
NormalizedTypes == TableKeys \cup {classify_clothing_type(l) : l \in Labels}

TypeInputs == Labels \cup NormalizedTypes \cup InferredTypes \cup StyleItems

-----------------------------------------------------------------------------
(* State: the call in progress on the analysis objects and its result;     *)
(* the pending candidate lists of the sessions; a call the caller made     *)
(* earlier and kept the result of; the image object the caller holds and   *)
(* the fields of the detector and analyser instances; the alarm of the     *)
(* server process and the place a request handler has reached.             *)

Sessions == {"A", "B"}

NoPending == <<>>

NoCall == [op |-> "none", arg |-> <<>>, ret |-> <<>>]

NoImage == <<>>

\* no request is inside a handler that takes several steps
NoRequest == [at |-> "none", timeout |-> "none", detections |-> <<>>]

\* SimpleClothingDetector.__init__ and ColorAnalyzer.__init__: the fields of a
\* constructed instance (self.device is left out: it is fixed by the host)
Constructed ==
  [SimpleClothingDetector |->
     [yolo_model |-> "yolov8n.pt",
      clothing_categories |->
        <<<<"p","e","r","s","o","n">>, <<"s","h","i","r","t">>, <<"p","a","n","t","s">>, <<"s","h","o","e","s">>, <<"d","r","e","s","s">>, <<"j","a","c","k","e","t">>, <<"c","o","a","t">>,
          <<"h","a","t">>, <<"b","a","g">>, <<"t","i","e">>, <<"s","o","c","k","s">>, <<"g","l","o","v","e","s">>, <<"s","c","a","r","f">>, <<"b","e","l","t">>,
          <<"s","k","i","r","t">>, <<"s","h","o","r","t","s">>, <<"s","w","e","a","t","e","r">>, <<"h","o","o","d","i","e">>, <<"j","e","a","n","s">>, <<"s","n","e","a","k","e","r","s">>,
          <<"b","o","o","t","s">>, <<"s","a","n","d","a","l","s">>, <<"b","a","c","k","p","a","c","k">>, <<"h","a","n","d","b","a","g">>, <<"s","u","n","g","l","a","s","s","e","s">>>>],
   ColorAnalyzer |->
     [color_thresholds |-> [dominant_colors |-> 5, min_percentage |-> 5]]]

Init ==
  /\ op = "idle"
  /\ arg = <<>>
  /\ ret = <<>>
  /\ pending = [s \in Sessions |-> NoPending]
  /\ earlier = NoCall
  /\ caller_image = NoImage
  /\ fields = Constructed
  /\ alarm = FALSE
  /\ pc = NoRequest

\* a call returns to its caller before the next one is made
Return ==
  /\ op # "idle"
  /\ pc.at \in {"none", "return"}
  /\ op' = "idle"
  /\ arg' = <<>>
  /\ ret' = <<>>
  /\ pc' = NoRequest
  /\ UNCHANGED <<pending, earlier, caller_image, fields, alarm>>

ClassifyClothingType ==
  /\ op = "idle"
  /\ \E l \in Labels :
       /\ op' = "classify_clothing_type"
       /\ arg' = l
       /\ ret' = classify_clothing_type(l)
       /\ UNCHANGED <<pending, earlier, caller_image, fields, alarm, pc>>

GetApplicableStyles ==
  /\ op = "idle"
  /\ \E t \in TypeInputs :
       /\ op' = "get_applicable_styles"
       /\ arg' = t
       /\ ret' = get_applicable_styles(t)
       /\ UNCHANGED <<pending, earlier, caller_image, fields, alarm, pc>>

NextTaxonomy == ClassifyClothingType \/ GetApplicableStyles \/ Return

SpecTaxonomy == Init /\ [][NextTaxonomy]_vars

-----------------------------------------------------------------------------
(* Claims on the taxonomy                                                  *)

\* C5: normalization is idempotent: classifying a table key, or any value
\* the classification can return, gives that same value back.
C5_Idempotent ==
  (op = "classify_clothing_type" /\ arg \in NormalizedTypes) => ret = arg

\* C6: for every clothing type string the applicable styles are a non-empty
\* list, and each of them is one of the 21 keys of style_mappings.
C6_StylesNonEmptyKnown ==
  op = "get_applicable_styles" =>
    /\ ret # <<>>
    /\ \A i \in 1..Len(ret) : ret[i] \in StyleKeys
    /\ Cardinality(StyleKeys) = 21

\* a type with no direct mapping and no keyword: the default is returned
C6_Witness ==
  op = "get_applicable_styles" /\ arg = <<"u","m","b","r","e","l","l","a">> /\ ret = <<<<"c","a","s","u","a","l">>>>

ExactTypes(dl) ==
  {i \in 1..Len(clothing_types) :
     \E j \in 1..Len(clothing_types[i].variations) :
        Lower(clothing_types[i].variations[j]) = dl}

SubstringTypes(dl) ==
  {i \in 1..Len(clothing_types) :
     \E j \in 1..Len(clothing_types[i].variations) :
        \/ Contains(dl, Lower(clothing_types[i].variations[j]))
        \/ Contains(Lower(clothing_types[i].variations[j]), dl)}

Least(S) == CHOOSE m \in S : \A n \in S : m <= n

\* C10: the label is resolved by the first of four stages that matches:
\* exact case-insensitive synonym, substring either way in table order,
\* keyword fallback, the raw label unchanged; an exact match of any type
\* wins over a substring match of an earlier type.
C10_FourStages ==
  op = "classify_clothing_type" =>
    LET dl == Lower(arg)
        E  == ExactTypes(dl)
        F  == SubstringTypes(dl)
        has(w) == Contains(dl, w)
    IN  IF E # {} THEN ret = clothing_types[Least(E)].type
        ELSE IF F # {} THEN ret = clothing_types[Least(F)].type
        ELSE IF has(<<"s","h","i","r","t">>) \/ has(<<"t","o","p">>) \/ has(<<"b","l","o","u","s","e">>) THEN ret = <<"t","-","s","h","i","r","t">>
        ELSE IF has(<<"p","a","n","t","s">>) \/ has(<<"j","e","a","n","s">>) \/ has(<<"t","r","o","u","s","e","r">>) THEN ret = <<"j","e","a","n","s">>
        ELSE IF has(<<"d","r","e","s","s">>) \/ has(<<"g","o","w","n">>) THEN ret = <<"d","r","e","s","s">>
        ELSE IF has(<<"s","h","o","e">>) \/ has(<<"b","o","o","t">>) \/ has(<<"s","n","e","a","k","e","r">>) THEN ret = <<"s","n","e","a","k","e","r","s">>
        ELSE IF has(<<"j","a","c","k","e","t">>) \/ has(<<"c","o","a","t">>) THEN ret = <<"j","a","c","k","e","t">>
        ELSE ret = arg

\* 'Cargo Shorts' is a synonym of cargo-shorts (16th type) and contains
\* 'shorts', a synonym of the 15th type
C10_Witness ==
  /\ op = "classify_clothing_type"
  /\ arg = <<"C","a","r","g","o"," ","S","h","o","r","t","s">>
  /\ ret = <<"c","a","r","g","o","-","s","h","o","r","t","s">>
  /\ Least(SubstringTypes(Lower(arg))) < Least(ExactTypes(Lower(arg)))

-----------------------------------------------------------------------------
(* Pixel regions.  A region is the bag of its pixels: a function from the  *)
(* colours that occur in it to the number of pixels of that colour.  The   *)
(* analysers start with reshape(-1, 3), after which only the multiset of   *)
(* pixels is used.  The regions of the model are at most 100 pixels high   *)
(* and wide (300 for ColorAnalyzer), so that no analyser resizes them.     *)

RECURSIVE SumCounts(_, _)
SumCounts(pixels, D) ==
  IF D = {} THEN 0
  ELSE LET c == CHOOSE x \in D : TRUE
       IN  pixels[c] + SumCounts(pixels, D \ {c})

\* len(pixels), region.size = 3 * len(pixels)
Size(pixels) == SumCounts(pixels, DOMAIN pixels)

\* cv2.cvtColor(_, COLOR_BGR2RGB) and COLOR_RGB2BGR: the channels reversed
SwapChannels(c) == <<c[3], c[2], c[1]>>

cvtColor(pixels) ==
  [c \in {SwapChannels(x) : x \in DOMAIN pixels} |-> pixels[SwapChannels(c)]]

\* pixels[mask] for a per-pixel predicate keep(_)
Select(pixels, keep(_)) == [c \in {x \in DOMAIN pixels : keep(x)} |-> pixels[c]]

\* len(np.unique(pixels.reshape(-1, pixels.shape[-1]))): np.unique without an
\* axis flattens its argument, so this is the number of distinct channel values
unique_count(pixels) == Cardinality({c[i] : c \in DOMAIN pixels, i \in 1..3})

Min(a, b) == IF a <= b THEN a ELSE b

-----------------------------------------------------------------------------
(* Results of a step that may raise                                        *)

Ok(v) == [raised |-> FALSE, value |-> v]

Raise == [raised |-> TRUE, value |-> <<>>]

\* try: ... except Exception: return default
TryExcept(outcomes, default) ==
  {IF o.raised THEN Ok(default) ELSE o : o \in outcomes}

-----------------------------------------------------------------------------
(* sklearn.cluster.KMeans(n_clusters).fit(pixels): n_clusters centres and  *)
(* one label per sample.  fit raises ValueError when there are fewer       *)
(* samples than clusters.  Equal samples get equal labels; with fewer      *)
(* distinct samples than clusters the surplus clusters stay empty (fit     *)
(* only warns) and their centres lie on samples.  Which split Lloyd's      *)
(* iteration settles on is left open.                                      *)

RECURSIVE SumChannel(_, _, _)
SumChannel(pixels, D, ch) ==
  IF D = {} THEN 0
  ELSE LET c == CHOOSE x \in D : TRUE
       IN  pixels[c] * c[ch] + SumChannel(pixels, D \ {c}, ch)

Members(pixels, labels, i) == {c \in DOMAIN pixels : labels[c] = i}

\* np.sum(kmeans.labels_ == i)
cluster_size(pixels, labels, i) == SumCounts(pixels, Members(pixels, labels, i))

\* the mean of a cluster, kept as sums over a count
Mean(pixels, D) ==
  [sum |-> <<SumChannel(pixels, D, 1), SumChannel(pixels, D, 2), SumChannel(pixels, D, 3)>>,
   n   |-> SumCounts(pixels, D)]

KMeansFits(pixels, n_clusters) ==
  LET D == DOMAIN pixels
      m == Min(n_clusters, Cardinality(D))
      Labelings == {l \in [D -> 1..n_clusters] :
                      Cardinality({l[c] : c \in D}) = m}
      Empty(l) == {i \in 1..n_clusters : Members(pixels, l, i) = {}}
  IN  UNION {
        {[labels_ |-> l,
          cluster_centers_ |->
            [i \in 1..n_clusters |->
               IF i \in Empty(l) THEN [sum |-> e[i], n |-> 1]
               ELSE Mean(pixels, Members(pixels, l, i))]] :
         e \in [Empty(l) -> D]} :
        l \in Labelings}

KMeans_fit(pixels, n_clusters) ==
  IF Size(pixels) < n_clusters THEN {Raise}
  ELSE {Ok(km) : km \in KMeansFits(pixels, n_clusters)}

\* center.astype(int): truncation of the non-negative mean
astype_int(center) ==
  <<center.sum[1] \div center.n, center.sum[2] \div center.n, center.sum[3] \div center.n>>

-----------------------------------------------------------------------------
(* Percentages are kept as fractions num/den                               *)

\* (cluster_size / total_pixels) * 100
Percentage(size, total) == [num |-> 100 * size, den |-> total]

PctLess(p, q) == p.num * q.den < q.num * p.den

PctOf(n) == [num |-> n, den |-> 1]

\* round(percentage, 1): to the nearest tenth, ties to the even tenth
round1(p) ==
  LET q == (10 * p.num) \div p.den
      r == (10 * p.num) % p.den
  IN  [num |-> IF 2 * r > p.den \/ (2 * r = p.den /\ q % 2 = 1) THEN q + 1 ELSE q,
       den |-> 10]

-----------------------------------------------------------------------------
(* webcolors.CSS3_HEX_TO_NAMES, in the order of its items(), and the       *)
(* nearest-name lookup shared by the _get_color_name methods               *)

CSS3_HEX_TO_NAMES ==
  <<
  [name |-> "aliceblue", rgb |-> <<240, 248, 255>>],   \* #f0f8ff
  [name |-> "antiquewhite", rgb |-> <<250, 235, 215>>],   \* #faebd7
  [name |-> "cyan", rgb |-> <<0, 255, 255>>],   \* #00ffff
  [name |-> "aquamarine", rgb |-> <<127, 255, 212>>],   \* #7fffd4
  [name |-> "azure", rgb |-> <<240, 255, 255>>],   \* #f0ffff
  [name |-> "beige", rgb |-> <<245, 245, 220>>],   \* #f5f5dc
  [name |-> "bisque", rgb |-> <<255, 228, 196>>],   \* #ffe4c4
  [name |-> "black", rgb |-> <<0, 0, 0>>],   \* #000000
  [name |-> "blanchedalmond", rgb |-> <<255, 235, 205>>],   \* #ffebcd
  [name |-> "blue", rgb |-> <<0, 0, 255>>],   \* #0000ff
  [name |-> "blueviolet", rgb |-> <<138, 43, 226>>],   \* #8a2be2
  [name |-> "brown", rgb |-> <<165, 42, 42>>],   \* #a52a2a
  [name |-> "burlywood", rgb |-> <<222, 184, 135>>],   \* #deb887
  [name |-> "cadetblue", rgb |-> <<95, 158, 160>>],   \* #5f9ea0
  [name |-> "chartreuse", rgb |-> <<127, 255, 0>>],   \* #7fff00
  [name |-> "chocolate", rgb |-> <<210, 105, 30>>],   \* #d2691e
  [name |-> "coral", rgb |-> <<255, 127, 80>>],   \* #ff7f50
  [name |-> "cornflowerblue", rgb |-> <<100, 149, 237>>],   \* #6495ed
  [name |-> "cornsilk", rgb |-> <<255, 248, 220>>],   \* #fff8dc
  [name |-> "crimson", rgb |-> <<220, 20, 60>>],   \* #dc143c
  [name |-> "darkblue", rgb |-> <<0, 0, 139>>],   \* #00008b
  [name |-> "darkcyan", rgb |-> <<0, 139, 139>>],   \* #008b8b
  [name |-> "darkgoldenrod", rgb |-> <<184, 134, 11>>],   \* #b8860b
  [name |-> "darkgray", rgb |-> <<169, 169, 169>>],   \* #a9a9a9
  [name |-> "darkgreen", rgb |-> <<0, 100, 0>>],   \* #006400
  [name |-> "darkkhaki", rgb |-> <<189, 183, 107>>],   \* #bdb76b
  [name |-> "darkmagenta", rgb |-> <<139, 0, 139>>],   \* #8b008b
  [name |-> "darkolivegreen", rgb |-> <<85, 107, 47>>],   \* #556b2f
  [name |-> "darkorange", rgb |-> <<255, 140, 0>>],   \* #ff8c00
  [name |-> "darkorchid", rgb |-> <<153, 50, 204>>],   \* #9932cc
  [name |-> "darkred", rgb |-> <<139, 0, 0>>],   \* #8b0000
  [name |-> "darksalmon", rgb |-> <<233, 150, 122>>],   \* #e9967a
  [name |-> "darkseagreen", rgb |-> <<143, 188, 143>>],   \* #8fbc8f
  [name |-> "darkslateblue", rgb |-> <<72, 61, 139>>],   \* #483d8b
  [name |-> "darkslategray", rgb |-> <<47, 79, 79>>],   \* #2f4f4f
  [name |-> "darkturquoise", rgb |-> <<0, 206, 209>>],   \* #00ced1
  [name |-> "darkviolet", rgb |-> <<148, 0, 211>>],   \* #9400d3
  [name |-> "deeppink", rgb |-> <<255, 20, 147>>],   \* #ff1493
  [name |-> "deepskyblue", rgb |-> <<0, 191, 255>>],   \* #00bfff
  [name |-> "dimgray", rgb |-> <<105, 105, 105>>],   \* #696969
  [name |-> "dodgerblue", rgb |-> <<30, 144, 255>>],   \* #1e90ff
  [name |-> "firebrick", rgb |-> <<178, 34, 34>>],   \* #b22222
  [name |-> "floralwhite", rgb |-> <<255, 250, 240>>],   \* #fffaf0
  [name |-> "forestgreen", rgb |-> <<34, 139, 34>>],   \* #228b22
  [name |-> "magenta", rgb |-> <<255, 0, 255>>],   \* #ff00ff
  [name |-> "gainsboro", rgb |-> <<220, 220, 220>>],   \* #dcdcdc
  [name |-> "ghostwhite", rgb |-> <<248, 248, 255>>],   \* #f8f8ff
  [name |-> "gold", rgb |-> <<255, 215, 0>>],   \* #ffd700
  [name |-> "goldenrod", rgb |-> <<218, 165, 32>>],   \* #daa520
  [name |-> "gray", rgb |-> <<128, 128, 128>>],   \* #808080
  [name |-> "green", rgb |-> <<0, 128, 0>>],   \* #008000
  [name |-> "greenyellow", rgb |-> <<173, 255, 47>>],   \* #adff2f
  [name |-> "honeydew", rgb |-> <<240, 255, 240>>],   \* #f0fff0
  [name |-> "hotpink", rgb |-> <<255, 105, 180>>],   \* #ff69b4
  [name |-> "indianred", rgb |-> <<205, 92, 92>>],   \* #cd5c5c
  [name |-> "indigo", rgb |-> <<75, 0, 130>>],   \* #4b0082
  [name |-> "ivory", rgb |-> <<255, 255, 240>>],   \* #fffff0
  [name |-> "khaki", rgb |-> <<240, 230, 140>>],   \* #f0e68c
  [name |-> "lavender", rgb |-> <<230, 230, 250>>],   \* #e6e6fa
  [name |-> "lavenderblush", rgb |-> <<255, 240, 245>>],   \* #fff0f5
  [name |-> "lawngreen", rgb |-> <<124, 252, 0>>],   \* #7cfc00
  [name |-> "lemonchiffon", rgb |-> <<255, 250, 205>>],   \* #fffacd
  [name |-> "lightblue", rgb |-> <<173, 216, 230>>],   \* #add8e6
  [name |-> "lightcoral", rgb |-> <<240, 128, 128>>],   \* #f08080
  [name |-> "lightcyan", rgb |-> <<224, 255, 255>>],   \* #e0ffff
  [name |-> "lightgoldenrodyellow", rgb |-> <<250, 250, 210>>],   \* #fafad2
  [name |-> "lightgray", rgb |-> <<211, 211, 211>>],   \* #d3d3d3
  [name |-> "lightgreen", rgb |-> <<144, 238, 144>>],   \* #90ee90
  [name |-> "lightpink", rgb |-> <<255, 182, 193>>],   \* #ffb6c1
  [name |-> "lightsalmon", rgb |-> <<255, 160, 122>>],   \* #ffa07a
  [name |-> "lightseagreen", rgb |-> <<32, 178, 170>>],   \* #20b2aa
  [name |-> "lightskyblue", rgb |-> <<135, 206, 250>>],   \* #87cefa
  [name |-> "lightslategray", rgb |-> <<119, 136, 153>>],   \* #778899
  [name |-> "lightsteelblue", rgb |-> <<176, 196, 222>>],   \* #b0c4de
  [name |-> "lightyellow", rgb |-> <<255, 255, 224>>],   \* #ffffe0
  [name |-> "lime", rgb |-> <<0, 255, 0>>],   \* #00ff00
  [name |-> "limegreen", rgb |-> <<50, 205, 50>>],   \* #32cd32
  [name |-> "linen", rgb |-> <<250, 240, 230>>],   \* #faf0e6
  [name |-> "maroon", rgb |-> <<128, 0, 0>>],   \* #800000
  [name |-> "mediumaquamarine", rgb |-> <<102, 205, 170>>],   \* #66cdaa
  [name |-> "mediumblue", rgb |-> <<0, 0, 205>>],   \* #0000cd
  [name |-> "mediumorchid", rgb |-> <<186, 85, 211>>],   \* #ba55d3
  [name |-> "mediumpurple", rgb |-> <<147, 112, 219>>],   \* #9370db
  [name |-> "mediumseagreen", rgb |-> <<60, 179, 113>>],   \* #3cb371
  [name |-> "mediumslateblue", rgb |-> <<123, 104, 238>>],   \* #7b68ee
  [name |-> "mediumspringgreen", rgb |-> <<0, 250, 154>>],   \* #00fa9a
  [name |-> "mediumturquoise", rgb |-> <<72, 209, 204>>],   \* #48d1cc
  [name |-> "mediumvioletred", rgb |-> <<199, 21, 133>>],   \* #c71585
  [name |-> "midnightblue", rgb |-> <<25, 25, 112>>],   \* #191970
  [name |-> "mintcream", rgb |-> <<245, 255, 250>>],   \* #f5fffa
  [name |-> "mistyrose", rgb |-> <<255, 228, 225>>],   \* #ffe4e1
  [name |-> "moccasin", rgb |-> <<255, 228, 181>>],   \* #ffe4b5
  [name |-> "navajowhite", rgb |-> <<255, 222, 173>>],   \* #ffdead
  [name |-> "navy", rgb |-> <<0, 0, 128>>],   \* #000080
  [name |-> "oldlace", rgb |-> <<253, 245, 230>>],   \* #fdf5e6
  [name |-> "olive", rgb |-> <<128, 128, 0>>],   \* #808000
  [name |-> "olivedrab", rgb |-> <<107, 142, 35>>],   \* #6b8e23
  [name |-> "orange", rgb |-> <<255, 165, 0>>],   \* #ffa500
  [name |-> "orangered", rgb |-> <<255, 69, 0>>],   \* #ff4500
  [name |-> "orchid", rgb |-> <<218, 112, 214>>],   \* #da70d6
  [name |-> "palegoldenrod", rgb |-> <<238, 232, 170>>],   \* #eee8aa
  [name |-> "palegreen", rgb |-> <<152, 251, 152>>],   \* #98fb98
  [name |-> "paleturquoise", rgb |-> <<175, 238, 238>>],   \* #afeeee
  [name |-> "palevioletred", rgb |-> <<219, 112, 147>>],   \* #db7093
  [name |-> "papayawhip", rgb |-> <<255, 239, 213>>],   \* #ffefd5
  [name |-> "peachpuff", rgb |-> <<255, 218, 185>>],   \* #ffdab9
  [name |-> "peru", rgb |-> <<205, 133, 63>>],   \* #cd853f
  [name |-> "pink", rgb |-> <<255, 192, 203>>],   \* #ffc0cb
  [name |-> "plum", rgb |-> <<221, 160, 221>>],   \* #dda0dd
  [name |-> "powderblue", rgb |-> <<176, 224, 230>>],   \* #b0e0e6
  [name |-> "purple", rgb |-> <<128, 0, 128>>],   \* #800080
  [name |-> "red", rgb |-> <<255, 0, 0>>],   \* #ff0000
  [name |-> "rosybrown", rgb |-> <<188, 143, 143>>],   \* #bc8f8f
  [name |-> "royalblue", rgb |-> <<65, 105, 225>>],   \* #4169e1
  [name |-> "saddlebrown", rgb |-> <<139, 69, 19>>],   \* #8b4513
  [name |-> "salmon", rgb |-> <<250, 128, 114>>],   \* #fa8072
  [name |-> "sandybrown", rgb |-> <<244, 164, 96>>],   \* #f4a460
  [name |-> "seagreen", rgb |-> <<46, 139, 87>>],   \* #2e8b57
  [name |-> "seashell", rgb |-> <<255, 245, 238>>],   \* #fff5ee
  [name |-> "sienna", rgb |-> <<160, 82, 45>>],   \* #a0522d
  [name |-> "silver", rgb |-> <<192, 192, 192>>],   \* #c0c0c0
  [name |-> "skyblue", rgb |-> <<135, 206, 235>>],   \* #87ceeb
  [name |-> "slateblue", rgb |-> <<106, 90, 205>>],   \* #6a5acd
  [name |-> "slategray", rgb |-> <<112, 128, 144>>],   \* #708090
  [name |-> "snow", rgb |-> <<255, 250, 250>>],   \* #fffafa
  [name |-> "springgreen", rgb |-> <<0, 255, 127>>],   \* #00ff7f
  [name |-> "steelblue", rgb |-> <<70, 130, 180>>],   \* #4682b4
  [name |-> "tan", rgb |-> <<210, 180, 140>>],   \* #d2b48c
  [name |-> "teal", rgb |-> <<0, 128, 128>>],   \* #008080
  [name |-> "thistle", rgb |-> <<216, 191, 216>>],   \* #d8bfd8
  [name |-> "tomato", rgb |-> <<255, 99, 71>>],   \* #ff6347
  [name |-> "turquoise", rgb |-> <<64, 224, 208>>],   \* #40e0d0
  [name |-> "violet", rgb |-> <<238, 130, 238>>],   \* #ee82ee
  [name |-> "wheat", rgb |-> <<245, 222, 179>>],   \* #f5deb3
  [name |-> "white", rgb |-> <<255, 255, 255>>],   \* #ffffff
  [name |-> "whitesmoke", rgb |-> <<245, 245, 245>>],   \* #f5f5f5
  [name |-> "yellow", rgb |-> <<255, 255, 0>>],   \* #ffff00
  [name |-> "yellowgreen", rgb |-> <<154, 205, 50>>]    \* #9acd32
  >>

SqDist(a, b) ==
  (a[1] - b[1]) * (a[1] - b[1]) + (a[2] - b[2]) * (a[2] - b[2])
    + (a[3] - b[3]) * (a[3] - b[3])

\* the loop min_colours[(rd + gd + bd)] = name followed by
\* min_colours[min(min_colours.keys())]: an entry at the same distance as an
\* earlier one replaces it, so the name returned is that of the last entry at
\* the least distance.  Nearest(rgb, lo, hi) is the index of that entry among
\* the entries lo..hi.
RECURSIVE Nearest(_, _, _)
Nearest(rgb, lo, hi) ==
  IF lo = hi THEN lo
  ELSE LET mid == (lo + hi) \div 2
           a == Nearest(rgb, lo, mid)
           b == Nearest(rgb, mid + 1, hi)
       IN  IF SqDist(CSS3_HEX_TO_NAMES[b].rgb, rgb) <= SqDist(CSS3_HEX_TO_NAMES[a].rgb, rgb)
           THEN b ELSE a

get_color_name(rgb) == CSS3_HEX_TO_NAMES[Nearest(rgb, 1, Len(CSS3_HEX_TO_NAMES))].name

-----------------------------------------------------------------------------
(* colors.sort(key=lambda x: x['percentage'], reverse=True): stable        *)

RECURSIVE InsertDesc(_, _)
InsertDesc(sorted, x) ==
  IF sorted = <<>> THEN <<x>>
  ELSE IF PctLess(Head(sorted).percentage, x.percentage)
       THEN <<x>> \o sorted
       ELSE <<Head(sorted)>> \o InsertDesc(Tail(sorted), x)

RECURSIVE SortDesc(_)
SortDesc(colors) ==
  IF colors = <<>> THEN <<>>
  ELSE InsertDesc(SortDesc(SubSeq(colors, 1, Len(colors) - 1)), colors[Len(colors)])

-----------------------------------------------------------------------------
(* np.random.choice(len(pixels), limit, replace=False): any limit of the   *)
(* pixels may be drawn                                                     *)

\* the ways to draw k of the pixels whose colours are in D
RECURSIVE Draws(_, _, _)
Draws(pixels, D, k) ==
  IF D = {} THEN (IF k = 0 THEN {<<>>} ELSE {})
  ELSE LET c == CHOOSE x \in D : TRUE
           others == SumCounts(pixels, D \ {c})
           least == IF k > others THEN k - others ELSE 0
       IN  UNION {{(c :> j) @@ t : t \in Draws(pixels, D \ {c}, k - j)} :
                  j \in least..Min(k, pixels[c])}

Subsamples(pixels, limit) ==
  IF Size(pixels) > limit
  THEN {Select(s, LAMBDA c : s[c] > 0) : s \in Draws(pixels, DOMAIN pixels, limit)}
  ELSE {pixels}

-----------------------------------------------------------------------------
(* The loop over kmeans.cluster_centers_ of each analyser.  The loop       *)
(* appends name, rgb and percentage in one step; the name depends on rgb   *)
(* alone, so here the list is built and sorted first and the names are     *)
(* filled in last, by Named and FashionNamed.                              *)

\* ClothingDetector: every cluster is appended, the percentage is not rounded
RECURSIVE ClothingDetectorColors(_, _, _)
ClothingDetectorColors(pixels, km, i) ==
  IF i > Len(km.cluster_centers_) THEN <<>>
  ELSE LET percentage == Percentage(cluster_size(pixels, km.labels_, i), Size(pixels))
           rgb == astype_int(km.cluster_centers_[i])
       IN  <<[rgb |-> rgb, percentage |-> percentage]>>
           \o ClothingDetectorColors(pixels, km, i + 1)

\* SimpleClothingDetector, EnhancedClothingDetector, ColorAnalyzer and
\* FashionClassificationSystem: clusters below min_percentage are skipped,
\* the percentage is rounded to a tenth
RECURSIVE ClusterColors(_, _, _, _)
ClusterColors(pixels, km, i, min_percentage) ==
  IF i > Len(km.cluster_centers_) THEN <<>>
  ELSE LET percentage == Percentage(cluster_size(pixels, km.labels_, i), Size(pixels))
           rgb == astype_int(km.cluster_centers_[i])
       IN  (IF PctLess(percentage, PctOf(min_percentage)) THEN <<>>
            ELSE <<[rgb |-> rgb, percentage |-> round1(percentage)]>>)
           \o ClusterColors(pixels, km, i + 1, min_percentage)

\* color_name = self._get_color_name(rgb); {'name':, 'rgb':, 'percentage':}
Named(colors) ==
  [i \in 1..Len(colors) |->
     [name |-> get_color_name(colors[i].rgb), rgb |-> colors[i].rgb,
      percentage |-> colors[i].percentage]]

\* FashionClassificationSystem: {'color':, 'percentage':, 'rgb':}
FashionNamed(colors) ==
  [i \in 1..Len(colors) |->
     [color |-> get_color_name(colors[i].rgb), percentage |-> colors[i].percentage,
      rgb |-> colors[i].rgb]]

\* the lists one fit can leave: n_clusters centres looped over and sorted;
\* min_percentage = 0 skips nothing
Sorted(pixels, n_clusters, min_percentage, rounded) ==
  {IF f.raised THEN Raise
   ELSE Ok(SortDesc(IF rounded THEN ClusterColors(pixels, f.value, 1, min_percentage)
                    ELSE ClothingDetectorColors(pixels, f.value, 1))) :
   f \in KMeans_fit(pixels, n_clusters)}

WithNames(outcomes) == {IF o.raised THEN o ELSE Ok(Named(o.value)) : o \in outcomes}

WithFashionNames(outcomes) ==
  {IF o.raised THEN o ELSE Ok(FashionNamed(o.value)) : o \in outcomes}

-----------------------------------------------------------------------------
(* The colour analysers.  Each gives the set of results the call may have; *)
(* a result is raised exactly when an exception leaves the method.         *)

\* without the size test and without the try block
ClothingDetector_analyze_unguarded(region) ==
  IF Size(region) = 0 THEN {Raise}
  ELSE LET pixels == cvtColor(region)
           n_clusters == Min(3, unique_count(pixels))
       IN  WithNames(Sorted(pixels, n_clusters, 0, FALSE))

ClothingDetector_analyze_region_colors(region) ==
  TryExcept(
    IF Size(region) = 0 THEN {Ok(<<>>)}
    ELSE LET pixels == cvtColor(region)
             n_clusters == Min(3, unique_count(pixels))
         IN  IF n_clusters < 1 THEN {Ok(<<>>)}
             ELSE WithNames(Sorted(pixels, n_clusters, 0, FALSE)),
    <<>>)

SimpleClothingDetector_analyze_region_colors(region) ==
  TryExcept(
    IF Size(region) = 0 THEN {Ok(<<>>)}
    ELSE WithNames(UNION {
           LET n_clusters == Min(3, unique_count(pixels))
           IN  IF n_clusters < 1 THEN {Ok(<<>>)}
               ELSE Sorted(pixels, n_clusters, 15, TRUE) :
           pixels \in Subsamples(cvtColor(region), 1000)}),
    <<>>)

EnhancedClothingDetector_analyze_region_colors(region) ==
  TryExcept(
    IF Size(region) = 0 THEN {Ok(<<>>)}
    ELSE WithNames(UNION {
           LET n_clusters == Min(3, unique_count(pixels))
           IN  IF n_clusters < 1 THEN {Ok(<<>>)}
               ELSE Sorted(pixels, n_clusters, 10, TRUE) :
           pixels \in Subsamples(cvtColor(region), 1000)}),
    <<>>)

\* mask_pixels = image[mask]
EnhancedClothingDetector_analyze_masked_colors(mask_pixels) ==
  TryExcept(
    IF Size(mask_pixels) = 0 THEN {Ok(<<>>)}
    ELSE LET mask_pixels_rgb == cvtColor(mask_pixels)
             n_clusters == Min(5, unique_count(mask_pixels_rgb))
         IN  IF n_clusters < 1 THEN {Ok(<<>>)}
             ELSE WithNames(Sorted(mask_pixels_rgb, n_clusters, 5, TRUE)),
    <<>>)

FashionClassificationSystem_analyze_colors(image_region) ==
  TryExcept(
    IF Size(image_region) = 0 THEN {Ok(<<>>)}
    ELSE LET pixels == cvtColor(image_region)
             mask(c) == (\A i \in 1..3 : c[i] > 15) /\ (\A i \in 1..3 : c[i] < 240)
             kept == Select(pixels, mask)
             filtered_pixels == IF Size(kept) < 10 THEN pixels ELSE kept
         IN  WithFashionNames(UNION {
               LET n_clusters == Min(5, unique_count(sampled))
               IN  IF n_clusters < 1 THEN {Ok(<<>>)}
                   ELSE Sorted(sampled, n_clusters, 5, TRUE) :
               sampled \in Subsamples(filtered_pixels, 2000)}),
    <<>>)

\* cv2.cvtColor raises on an empty image; there is no size test before it
ColorAnalyzer_get_dominant_colors(image) ==
  TryExcept(
    IF Size(image) = 0 THEN {Raise}
    ELSE LET pixels == cvtColor(image)
             mask(c) == (\A i \in 1..3 : c[i] > 20) /\ (\A i \in 1..3 : c[i] < 235)
             kept == Select(pixels, mask)
             filtered_pixels == IF Size(kept) = 0 THEN pixels ELSE kept
             n_clusters == Min(5, unique_count(filtered_pixels))
         IN  IF n_clusters < 1 THEN {Ok(<<>>)}
             ELSE WithNames(Sorted(filtered_pixels, n_clusters, 5, TRUE)),
    <<>>)

-----------------------------------------------------------------------------
(* The regions the analysers are called on                                 *)

\* RGB colours of the pixels: a saturated colour, a mixed one, a gray and a
\* near-black
Palette == {<<255, 0, 0>>, <<100, 150, 200>>, <<128, 128, 128>>, <<10, 10, 10>>}

\* pixels of one colour in a region
Counts == {1, 4, 30}

\* distinct colours in a region
MaxColors == 2

ImagesRGB ==
  UNION {[D -> Counts] : D \in {S \in SUBSET Palette : Cardinality(S) <= MaxColors}}

\* cv2.cvtColor(np.array(image), cv2.COLOR_RGB2BGR): what the callers pass
Regions == {cvtColor(im) : im \in ImagesRGB}

\* test_ai_quick.create_test_image: 200x200, four quadrants of 100x100
QuadrantSide == 100

\* red, blue, yellow and a pure green (0, 255, 0)
QuadrantColors == {<<255, 0, 0>>, <<0, 0, 255>>, <<0, 255, 0>>, <<255, 255, 0>>}

\* fill='green' of the test image is the CSS green (0, 128, 0)
TestImageColors == {<<255, 0, 0>>, <<0, 0, 255>>, <<0, 128, 0>>, <<255, 255, 0>>}

Quadrants(colors) == cvtColor([c \in colors |-> QuadrantSide * QuadrantSide])

QuadrantImage == Quadrants(QuadrantColors)

TestImage == Quadrants(TestImageColors)

\* n_clusters = min(3, len(np.unique(pixels.reshape(-1, pixels.shape[-1])))),
\* 5 in place of 3 for masks and whole images
n_clusters(max_clusters, pixels) == Min(max_clusters, unique_count(pixels))

-----------------------------------------------------------------------------
(* Calls of the colour analysers                                           *)

\* the step of an analyser that fixes the number of clusters, for pixels
\* that passed the tests for emptiness
RequestClusters ==
  /\ op = "idle"
  /\ \E max_clusters \in {3, 5}, region \in Regions :
       /\ Size(region) > 0
       /\ op' = "n_clusters"
       /\ arg' = [max_clusters |-> max_clusters, pixels |-> cvtColor(region)]
       /\ ret' = n_clusters(max_clusters, cvtColor(region))
       /\ UNCHANGED <<pending, earlier, caller_image, fields, alarm, pc>>

ClothingDetectorAnalyzeRegionColors ==
  /\ op = "idle"
  /\ \E region \in Regions : \E r \in ClothingDetector_analyze_region_colors(region) :
       /\ op' = "ClothingDetector._analyze_region_colors"
       /\ arg' = region
       /\ ret' = r
       /\ UNCHANGED <<pending, earlier, caller_image, fields, alarm, pc>>

SimpleAnalyzeRegionColors ==
  /\ op = "idle"
  /\ \E region \in Regions : \E r \in SimpleClothingDetector_analyze_region_colors(region) :
       /\ op' = "SimpleClothingDetector._analyze_region_colors"
       /\ arg' = region
       /\ ret' = r
       /\ UNCHANGED <<pending, earlier, caller_image, fields, alarm, pc>>

EnhancedAnalyzeRegionColors ==
  /\ op = "idle"
  /\ \E region \in Regions : \E r \in EnhancedClothingDetector_analyze_region_colors(region) :
       /\ op' = "EnhancedClothingDetector._analyze_region_colors"
       /\ arg' = region
       /\ ret' = r
       /\ UNCHANGED <<pending, earlier, caller_image, fields, alarm, pc>>

EnhancedAnalyzeMaskedColors ==
  /\ op = "idle"
  /\ \E region \in Regions : \E r \in EnhancedClothingDetector_analyze_masked_colors(region) :
       /\ op' = "EnhancedClothingDetector._analyze_masked_colors"
       /\ arg' = region
       /\ ret' = r
       /\ UNCHANGED <<pending, earlier, caller_image, fields, alarm, pc>>

FashionAnalyzeColors ==
  /\ op = "idle"
  /\ \E region \in Regions : \E r \in FashionClassificationSystem_analyze_colors(region) :
       /\ op' = "FashionClassificationSystem._analyze_colors"
       /\ arg' = region
       /\ ret' = r
       /\ UNCHANGED <<pending, earlier, caller_image, fields, alarm, pc>>

ColorAnalyzerGetDominantColors ==
  /\ op = "idle"
  /\ \E image \in Regions \cup {QuadrantImage, TestImage} :
       \E r \in ColorAnalyzer_get_dominant_colors(image) :
         /\ op' = "ColorAnalyzer._get_dominant_colors"
         /\ arg' = image
         /\ ret' = r
         /\ UNCHANGED <<pending, earlier, caller_image, fields, alarm, pc>>

NextColors ==
  \/ ClothingDetectorAnalyzeRegionColors
  \/ SimpleAnalyzeRegionColors
  \/ EnhancedAnalyzeRegionColors
  \/ EnhancedAnalyzeMaskedColors
  \/ FashionAnalyzeColors
  \/ ColorAnalyzerGetDominantColors
  \/ RequestClusters
  \/ Return

SpecColors == Init /\ [][NextColors]_vars

-----------------------------------------------------------------------------
(* EnhancedClothingDetector: attributes of a detection.  An image is a     *)
(* function from <<row, column>> to the BGR colour there; a mask is None   *)
(* or the set of positions where the boolean array is True.                *)

None == [none |-> TRUE, cells |-> {}]

Mask(cells) == [none |-> FALSE, cells |-> cells]

\* image[mask] as the colours found at the True positions, with their counts
Masked(image, cells) ==
  [c \in {image[p] : p \in cells} |-> Cardinality({p \in cells : image[p] = c})]

get_basic_attributes(class_name) ==
  [category |-> class_name, style |-> "casual", season |-> "all-season",
   material |-> "unknown", pattern |-> "solid", fit |-> "regular",
   detection_method |-> "basic"]

\* a slip: the colours are looked at before the keywords
predict_style_colors_first(class_name, colors) ==
  LET lower == Lower(class_name)
  IN  IF /\ colors # <<>>
         /\ \E i \in 1..Len(colors) :
              colors[i].name \in {"black", "white", "gray", "navy"}
        THEN "formal"
      ELSE IF AnyIn(<<<<"s","u","i","t">>, <<"b","l","a","z","e","r">>, <<"t","i","e">>, <<"d","r","e","s","s"," ","s","h","i","r","t">>>>, lower) THEN "formal"
      ELSE IF AnyIn(<<<<"s","n","e","a","k","e","r","s">>, <<"s","p","o","r","t","s">>, <<"a","t","h","l","e","t","i","c">>, <<"h","o","o","d","i","e">>>>, lower) THEN "sporty"
      ELSE "casual"

predict_style_heuristic(class_name, colors) ==
  LET lower == Lower(class_name)
  IN  IF AnyIn(<<<<"s","u","i","t">>, <<"b","l","a","z","e","r">>, <<"t","i","e">>, <<"d","r","e","s","s"," ","s","h","i","r","t">>>>, lower) THEN "formal"
      ELSE IF AnyIn(<<<<"s","n","e","a","k","e","r","s">>, <<"s","p","o","r","t","s">>, <<"a","t","h","l","e","t","i","c">>, <<"h","o","o","d","i","e">>>>, lower) THEN "sporty"
      ELSE IF AnyIn(<<<<"j","e","a","n","s">>, <<"t","-","s","h","i","r","t">>, <<"c","a","s","u","a","l">>>>, lower) THEN "casual"
      ELSE IF /\ colors # <<>>
              /\ \E i \in 1..Len(colors) :
                   colors[i].name \in {"black", "white", "gray", "navy"}
           THEN "formal"
           ELSE "casual"

\* without boots among the winter items
predict_season_without_boots(class_name, colors) ==
  LET lower == Lower(class_name)
  IN  IF AnyIn(<<<<"c","o","a","t">>, <<"j","a","c","k","e","t">>, <<"s","w","e","a","t","e","r">>>>, lower) THEN "winter"
      ELSE IF AnyIn(<<<<"s","h","o","r","t","s">>, <<"s","a","n","d","a","l","s">>, <<"t","a","n","k">>, <<"s","u","m","m","e","r">>>>, lower) THEN "summer"
      ELSE IF AnyIn(<<<<"c","a","r","d","i","g","a","n">>, <<"l","i","g","h","t"," ","j","a","c","k","e","t">>>>, lower) THEN "spring-fall"
      ELSE "all-season"

predict_season_heuristic(class_name, colors) ==
  LET lower == Lower(class_name)
  IN  IF AnyIn(<<<<"c","o","a","t">>, <<"j","a","c","k","e","t">>, <<"s","w","e","a","t","e","r">>, <<"b","o","o","t","s">>>>, lower) THEN "winter"
      ELSE IF AnyIn(<<<<"s","h","o","r","t","s">>, <<"s","a","n","d","a","l","s">>, <<"t","a","n","k">>, <<"s","u","m","m","e","r">>>>, lower) THEN "summer"
      ELSE IF AnyIn(<<<<"c","a","r","d","i","g","a","n">>, <<"l","i","g","h","t"," ","j","a","c","k","e","t">>>>, lower) THEN "spring-fall"
      ELSE "all-season"

\* a slip: leather is looked for before jean
predict_material_leather_first(class_name) ==
  LET lower == Lower(class_name)
  IN  IF AnyIn(<<<<"l","e","a","t","h","e","r">>, <<"b","o","o","t","s">>>>, lower) THEN "leather"
      ELSE IF Contains(lower, <<"j","e","a","n">>) THEN "denim"
      ELSE IF AnyIn(<<<<"c","o","t","t","o","n">>, <<"t","-","s","h","i","r","t">>>>, lower) THEN "cotton"
      ELSE IF AnyIn(<<<<"w","o","o","l">>, <<"s","w","e","a","t","e","r">>>>, lower) THEN "wool"
      ELSE IF AnyIn(<<<<"s","i","l","k">>, <<"d","r","e","s","s">>>>, lower) THEN "silk"
      ELSE "cotton"

predict_material_heuristic(class_name) ==
  LET lower == Lower(class_name)
  IN  IF Contains(lower, <<"j","e","a","n">>) THEN "denim"
      ELSE IF AnyIn(<<<<"l","e","a","t","h","e","r">>, <<"b","o","o","t","s">>>>, lower) THEN "leather"
      ELSE IF AnyIn(<<<<"c","o","t","t","o","n">>, <<"t","-","s","h","i","r","t">>>>, lower) THEN "cotton"
      ELSE IF AnyIn(<<<<"w","o","o","l">>, <<"s","w","e","a","t","e","r">>>>, lower) THEN "wool"
      ELSE IF AnyIn(<<<<"s","i","l","k">>, <<"d","r","e","s","s">>>>, lower) THEN "silk"
      ELSE "cotton"

\* cv2.cvtColor(_, cv2.COLOR_BGR2GRAY) of one 8-bit pixel: the fixed-point
\* weights of OpenCV 4 for 0.114 B + 0.587 G + 0.299 R
BGR2GRAY(c) == (3735 * c[1] + 19235 * c[2] + 9798 * c[3] + 16384) \div 32768

RECURSIVE SumGray(_, _, _)
SumGray(pixels, D, power) ==
  IF D = {} THEN 0
  ELSE LET c == CHOOSE x \in D : TRUE
           g == BGR2GRAY(c)
       IN  pixels[c] * (IF power = 2 THEN g * g ELSE g) + SumGray(pixels, D \ {c}, power)

\* np.var(gray_region) > limit, with var = E[x^2] - E[x]^2 over n values
VarianceAbove(pixels, limit) ==
  LET n == Size(pixels)
      s1 == SumGray(pixels, DOMAIN pixels, 1)
      s2 == SumGray(pixels, DOMAIN pixels, 2)
  IN  n * s2 - s1 * s1 > limit * n * n

\* image[None] is the whole image under one more axis
predict_pattern_heuristic(image, mask) ==
  LET masked_region == Masked(image, IF mask.none THEN DOMAIN image ELSE mask.cells)
  IN  IF Size(masked_region) = 0 THEN "solid"
      ELSE IF VarianceAbove(masked_region, 1000) THEN "patterned"
      ELSE "solid"

Greatest(S) == CHOOSE x \in S : \A y \in S : y <= x

Smallest(S) == CHOOSE x \in S : \A y \in S : x <= y

\* np.where(None) finds no position, or raises inside the try block
predict_fit_heuristic(mask) ==
  LET rows == {p[1] : p \in mask.cells}
      cols == {p[2] : p \in mask.cells}
  IN  IF mask.none \/ mask.cells = {} THEN "regular"
      ELSE LET height == Greatest(rows) - Smallest(rows)
               width == Greatest(cols) - Smallest(cols)
           IN  IF height = 0 \/ width = 0 THEN "regular"
               ELSE IF 2 * height > 5 * width THEN "tight"
               ELSE IF 2 * height < 3 * width THEN "loose"
               ELSE "regular"

\* ~mask raises TypeError for None: the except clause returns {}
get_heuristic_attributes(image, mask, class_name) ==
  IF mask.none THEN {<<>>}
  ELSE {[dominant_color |-> IF colors.value # <<>> THEN colors.value[1].name
                            ELSE "unknown",
         style |-> predict_style_heuristic(class_name, colors.value),
         season |-> predict_season_heuristic(class_name, colors.value),
         material |-> predict_material_heuristic(class_name),
         pattern |-> predict_pattern_heuristic(image, mask),
         fit |-> predict_fit_heuristic(mask),
         detection_method |-> "heuristic"] :
        colors \in EnhancedClothingDetector_analyze_masked_colors(
                     Masked(image, mask.cells))}

\* _predict_style, _predict_season, ... pass on to the heuristics, with no
\* colours
get_mmfashion_attributes(image, mask, class_name) ==
  [style |-> predict_style_heuristic(class_name, <<>>),
   season |-> predict_season_heuristic(class_name, <<>>),
   material |-> predict_material_heuristic(class_name),
   pattern |-> predict_pattern_heuristic(image, mask),
   fit |-> predict_fit_heuristic(mask),
   detection_method |-> "MMFashion (advanced)"]

\* dict.update
Update(attributes, more) ==
  [k \in DOMAIN attributes \cup DOMAIN more |->
     IF k \in DOMAIN more THEN more[k] ELSE attributes[k]]

\* self.mmfashion_model is "placeholder" exactly when the import of mmcv and
\* mmdet succeeded
get_fashion_attributes(image, mask, class_name, MMFASHION_AVAILABLE) ==
  LET attributes == [category |-> class_name]
  IN  IF MMFASHION_AVAILABLE
      THEN {Update(attributes, get_mmfashion_attributes(image, mask, class_name))}
      ELSE {Update(attributes, more) :
              more \in get_heuristic_attributes(image, mask, class_name)}

-----------------------------------------------------------------------------
(* The detections the attribute methods are called on                      *)

\* rows and columns of the image
GridHeight == 4

GridWidth == 2

Coords == (0..(GridHeight - 1)) \X (0..(GridWidth - 1))

\* BGR colours of the pixels
Dark == <<10, 10, 10>>

Light == <<250, 250, 250>>

Gray == <<128, 128, 128>>

Blue == <<200, 150, 100>>

Striped(even, odd) == [p \in Coords |-> IF p[1] % 2 = 0 THEN even ELSE odd]

Images == {Striped(Gray, Gray), Striped(Dark, Light), Striped(Gray, Blue)}

\* a rectangle of True positions, no True position, or no mask at all
Masks ==
  {Mask({p \in Coords : r1 <= p[1] /\ p[1] <= r2 /\ c1 <= p[2] /\ p[2] <= c2}) :
     r1 \in 0..(GridHeight - 1), r2 \in 0..(GridHeight - 1),
     c1 \in 0..(GridWidth - 1), c2 \in 0..(GridWidth - 1)}
  \cup {None}

ClassNames ==
  {<<"l","e","a","t","h","e","r"," ","b","o","o","t","s">>, <<"w","o","o","l"," ","s","w","e","a","t","e","r">>, <<"J","e","a","n","s">>, <<"t","i","e">>, <<"h","o","o","d","i","e">>, <<"s","a","n","d","a","l","s">>,
   <<"l","i","g","h","t"," ","j","a","c","k","e","t">>, <<"c","a","r","d","i","g","a","n">>, <<"s","i","l","k"," ","d","r","e","s","s">>, <<"t","-","s","h","i","r","t">>, <<"h","a","n","d","b","a","g">>}

\* labels for the keyword rules alone: one or several keywords, of one or
\* several rules, in either letter case, or none
RuleLabels ==
  ClassNames \cup
  {<<"u","m","b","r","e","l","l","a">>, <<"H","o","o","d","i","e">>, <<"s","u","i","t">>, <<"b","l","a","z","e","r">>, <<"d","r","e","s","s"," ","s","h","i","r","t">>, <<"s","p","o","r","t","s"," ","j","e","a","n","s">>,
   <<"t","i","e"," ","h","o","o","d","i","e">>, <<"c","a","s","u","a","l"," ","s","u","i","t">>, <<"a","t","h","l","e","t","i","c"," ","s","n","e","a","k","e","r","s">>, <<"c","o","a","t">>, <<"d","e","n","i","m"," ","j","a","c","k","e","t">>,
   <<"s","u","m","m","e","r"," ","c","o","a","t">>, <<"s","h","o","r","t","s">>, <<"t","a","n","k"," ","t","o","p">>, <<"s","u","m","m","e","r"," ","d","r","e","s","s">>, <<"l","e","a","t","h","e","r"," ","j","e","a","n","s">>,
   <<"c","o","t","t","o","n"," ","s","w","e","a","t","e","r">>, <<"w","o","o","l"," ","d","r","e","s","s">>, <<"b","o","o","t","s">>, <<"j","e","a","n"," ","s","h","o","r","t","s">>, <<"S","I","L","K">>, <<"s","h","i","r","t">>}

Sample(name, rgb, percentage) ==
  [name |-> name, rgb |-> rgb, percentage |-> Percentage(percentage, 100)]

\* colour lists as the analysers return them
ColorLists ==
  {<<>>,
   <<Sample("black", <<10, 10, 10>>, 100)>>,
   <<Sample("steelblue", <<100, 150, 200>>, 100)>>,
   <<Sample("red", <<255, 0, 0>>, 60), Sample("navy", <<0, 0, 128>>, 40)>>,
   <<Sample("gray", <<128, 128, 128>>, 50), Sample("white", <<255, 255, 255>>, 50)>>,
   <<Sample("dimgray", <<105, 105, 105>>, 70), Sample("snow", <<250, 250, 250>>, 30)>>}

-----------------------------------------------------------------------------
(* Calls of the attribute methods                                          *)

PredictStyleHeuristic ==
  /\ op = "idle"
  /\ \E class_name \in RuleLabels, colors \in ColorLists :
       /\ op' = "EnhancedClothingDetector._predict_style_heuristic"
       /\ arg' = [class_name |-> class_name, colors |-> colors]
       /\ ret' = predict_style_heuristic(class_name, colors)
       /\ UNCHANGED <<pending, earlier, caller_image, fields, alarm, pc>>

PredictSeasonHeuristic ==
  /\ op = "idle"
  /\ \E class_name \in RuleLabels, colors \in ColorLists :
       /\ op' = "EnhancedClothingDetector._predict_season_heuristic"
       /\ arg' = [class_name |-> class_name, colors |-> colors]
       /\ ret' = predict_season_heuristic(class_name, colors)
       /\ UNCHANGED <<pending, earlier, caller_image, fields, alarm, pc>>

PredictMaterialHeuristic ==
  /\ op = "idle"
  /\ \E class_name \in RuleLabels :
       /\ op' = "EnhancedClothingDetector._predict_material_heuristic"
       /\ arg' = [class_name |-> class_name]
       /\ ret' = predict_material_heuristic(class_name)
       /\ UNCHANGED <<pending, earlier, caller_image, fields, alarm, pc>>

PredictFitHeuristic ==
  /\ op = "idle"
  /\ \E mask \in Masks :
       /\ op' = "EnhancedClothingDetector._predict_fit_heuristic"
       /\ arg' = [mask |-> mask]
       /\ ret' = predict_fit_heuristic(mask)
       /\ UNCHANGED <<pending, earlier, caller_image, fields, alarm, pc>>

GetBasicAttributes ==
  /\ op = "idle"
  /\ \E class_name \in ClassNames :
       /\ op' = "EnhancedClothingDetector._get_basic_attributes"
       /\ arg' = [class_name |-> class_name]
       /\ ret' = get_basic_attributes(class_name)
       /\ UNCHANGED <<pending, earlier, caller_image, fields, alarm, pc>>

GetHeuristicAttributes ==
  /\ op = "idle"
  /\ \E image \in Images, mask \in Masks, class_name \in ClassNames :
       \E r \in get_heuristic_attributes(image, mask, class_name) :
         /\ op' = "EnhancedClothingDetector._get_heuristic_attributes"
         /\ arg' = [image |-> image, mask |-> mask, class_name |-> class_name]
         /\ ret' = r
         /\ UNCHANGED <<pending, earlier, caller_image, fields, alarm, pc>>

GetMMFashionAttributes ==
  /\ op = "idle"
  /\ \E image \in Images, mask \in Masks, class_name \in ClassNames :
       /\ op' = "EnhancedClothingDetector._get_mmfashion_attributes"
       /\ arg' = [image |-> image, mask |-> mask, class_name |-> class_name]
       /\ ret' = get_mmfashion_attributes(image, mask, class_name)
       /\ UNCHANGED <<pending, earlier, caller_image, fields, alarm, pc>>

GetFashionAttributes ==
  /\ op = "idle"
  /\ \E image \in Images, mask \in Masks, class_name \in ClassNames,
        MMFASHION_AVAILABLE \in BOOLEAN :
       \E r \in get_fashion_attributes(image, mask, class_name, MMFASHION_AVAILABLE) :
         /\ op' = "EnhancedClothingDetector._get_fashion_attributes"
         /\ arg' = [image |-> image, mask |-> mask, class_name |-> class_name,
                    MMFASHION_AVAILABLE |-> MMFASHION_AVAILABLE]
         /\ ret' = r
         /\ UNCHANGED <<pending, earlier, caller_image, fields, alarm, pc>>

NextAttrs ==
  \/ GetBasicAttributes
  \/ GetHeuristicAttributes
  \/ GetMMFashionAttributes
  \/ GetFashionAttributes
  \/ PredictStyleHeuristic
  \/ PredictSeasonHeuristic
  \/ PredictMaterialHeuristic
  \/ PredictFitHeuristic
  \/ Return

SpecAttrs == Init /\ [][NextAttrs]_vars

-----------------------------------------------------------------------------
(* FashionClassificationSystem: detection, analysis of one item and the    *)
(* selection among several.  An image is rows x cols blocks of BlockSize x *)
(* BlockSize pixels of one BGR colour each, together with the boxes the    *)
(* YOLO model reports for it; confidences are in hundredths.               *)

\* side of a block, in pixels
BlockSize == 20

Max(a, b) == IF a >= b THEN a ELSE b

Height(image) == image.rows * BlockSize

Width(image) == image.cols * BlockSize

\* image[y1:y2, x1:x2] as the colours in the slice, with their counts; a
\* slice ends where the image ends
Crop(image, x1, y1, x2, y2) ==
  LET Overlap(lo, hi, b) ==
        Max(0, Min(hi, (b + 1) * BlockSize) - Max(lo, b * BlockSize))
      area == [p \in DOMAIN image.blocks |->
                 Overlap(y1, y2, p[1]) * Overlap(x1, x2, p[2])]
      cells == {p \in DOMAIN image.blocks : area[p] > 0}
  IN  [c \in {image.blocks[p] : p \in cells} |->
         SumCounts(area, {p \in cells : image.blocks[p] = c})]

is_clothing_item(class_name) ==
  AnyIn(<<<<"p","e","r","s","o","n">>, <<"s","h","i","r","t">>, <<"p","a","n","t","s">>, <<"d","r","e","s","s">>, <<"j","a","c","k","e","t">>, <<"s","h","o","e","s">>, <<"b","a","g">>, <<"h","a","t">>,
          <<"s","k","i","r","t">>, <<"s","h","o","r","t","s">>, <<"c","o","a","t">>, <<"h","o","o","d","i","e">>, <<"s","w","e","a","t","e","r">>, <<"j","e","a","n","s">>, <<"b","o","o","t","s">>,
          <<"s","n","e","a","k","e","r","s">>, <<"s","a","n","d","a","l","s">>, <<"t","i","e">>, <<"b","e","l","t">>, <<"b","a","c","k","p","a","c","k">>, <<"h","a","n","d","b","a","g">>>>,
        Lower(class_name))

\* the loop over the boxes, from box i on, item_count items found so far
RECURSIVE DetectFrom(_, _, _)
DetectFrom(boxes, i, item_count) ==
  IF i > Len(boxes) THEN <<>>
  ELSE LET box == boxes[i]
           x1 == box.xyxy[1]
           y1 == box.xyxy[2]
           x2 == box.xyxy[3]
           y2 == box.xyxy[4]
       IN  IF is_clothing_item(box.class_name) /\ box.conf > 30
           THEN IF (x2 - x1) < 30 \/ (y2 - y1) < 30
                THEN DetectFrom(boxes, i + 1, item_count)
                ELSE <<[id |-> item_count + 1,
                        label |-> box.class_name,
                        confidence |-> box.conf,
                        bounding_box |-> [x1 |-> x1, y1 |-> y1, x2 |-> x2, y2 |-> y2,
                                          width |-> x2 - x1, height |-> y2 - y1]]>>
                     \o DetectFrom(boxes, i + 1, item_count + 1)
           ELSE DetectFrom(boxes, i + 1, item_count)

detect_clothing_items(image, yolo_model) ==
  IF yolo_model # "None" THEN DetectFrom(image.boxes, 1, 0) ELSE <<>>

\* "No colors detected", or the parts "<percentage>% <color>" that are
\* joined with ", "
generate_color_description(colors) ==
  IF colors = <<>> THEN <<"No colors detected">>
  ELSE [i \in 1..Len(colors) |-> <<colors[i].percentage, "% ", colors[i].color>>]

analyze_single_item(image, item) ==
  LET bbox == item.bounding_box
      item_region == Crop(image, bbox.x1, bbox.y1, bbox.x2, bbox.y2)
      clothing_type == classify_clothing_type(item.label)
      applicable_styles == get_applicable_styles(clothing_type)
  IN  {[clothing_type |-> clothing_type,
        detected_as |-> item.label,
        confidence |-> item.confidence,
        applicable_styles |-> applicable_styles,
        colors |-> colors.value,
        color_description |-> generate_color_description(colors.value)] :
       colors \in FashionClassificationSystem_analyze_colors(item_region)}

\* aspect_ratio = height / width, compared with 1.5 and 0.8
infer_clothing_type(image) ==
  IF 2 * Height(image) > 3 * Width(image) THEN <<"d","r","e","s","s">>
  ELSE IF 5 * Height(image) < 4 * Width(image) THEN <<"p","a","n","t","s">>
  ELSE <<"t","-","s","h","i","r","t">>

analyze_whole_image(image) ==
  LET inferred_type == infer_clothing_type(image)
  IN  {[clothing_type |-> inferred_type,
        detected_as |-> <<"w","h","o","l","e","_","i","m","a","g","e","_","a","n","a","l","y","s","i","s">>,
        confidence |-> 50,
        applicable_styles |-> get_applicable_styles(inferred_type),
        colors |-> colors.value,
        color_description |-> generate_color_description(colors.value),
        note |-> "Analysis based on whole image as no specific clothing items were detected"] :
       colors \in FashionClassificationSystem_analyze_colors(
                    Crop(image, 0, 0, Width(image), Height(image)))}

\* with several items, the first one is analysed at once
analyze_clothing_image_first_item(image, yolo_model) ==
  LET detected_items == detect_clothing_items(image, yolo_model)
  IN  IF Len(detected_items) >= 1
      THEN {[success |-> TRUE, multiple_items |-> FALSE, analysis |-> detailed_analysis] :
            detailed_analysis \in analyze_single_item(image, detected_items[1])}
      ELSE {[success |-> TRUE, multiple_items |-> FALSE, analysis |-> whole_image_analysis] :
            whole_image_analysis \in analyze_whole_image(image)}

analyze_clothing_image(image, yolo_model) ==
  LET detected_items == detect_clothing_items(image, yolo_model)
  IN  IF Len(detected_items) > 1
      THEN {[success |-> TRUE,
             multiple_items |-> TRUE,
             items |-> detected_items,
             message |-> "Multiple clothing items detected. Please specify which item you want to analyze.",
             instruction |-> "Please respond with the number of the item you want to analyze."]}
      ELSE IF Len(detected_items) = 1
      THEN {[success |-> TRUE, multiple_items |-> FALSE, analysis |-> detailed_analysis] :
            detailed_analysis \in analyze_single_item(image, detected_items[1])}
      ELSE {[success |-> TRUE, multiple_items |-> FALSE, analysis |-> whole_image_analysis] :
            whole_image_analysis \in analyze_whole_image(image)}

\* the range test admits 0, which Python's detected_items[-1] answers with
\* the last candidate
analyze_selected_item_from_zero(image, item_id, detected_items) ==
  IF item_id < 0 \/ item_id > Len(detected_items)
  THEN {[success |-> FALSE, error |-> "Invalid item selection"]}
  ELSE {[success |-> TRUE, analysis |-> detailed_analysis] :
        detailed_analysis \in
          analyze_single_item(image,
            detected_items[IF item_id = 0 THEN Len(detected_items) ELSE item_id])}

analyze_selected_item(image, item_id, detected_items) ==
  IF item_id < 1 \/ item_id > Len(detected_items)
  THEN {[success |-> FALSE, error |-> "Invalid item selection"]}
  ELSE {[success |-> TRUE, analysis |-> detailed_analysis] :
        detailed_analysis \in analyze_single_item(image, detected_items[item_id])}

-----------------------------------------------------------------------------
(* The images the system is called on                                      *)

Box(class_name, conf, x1, y1, x2, y2) ==
  [class_name |-> class_name, conf |-> conf, xyxy |-> <<x1, y1, x2, y2>>]

\* what the YOLO model may report for an image of 2 x 2 blocks: nothing,
\* one item, two items, three items among boxes that are skipped, and
\* skipped boxes only
BoxLists ==
  {<<>>,
   <<Box(<<"t","i","e">>, 90, 0, 0, 40, 40)>>,
   <<Box(<<"p","e","r","s","o","n">>, 80, 0, 0, 30, 40), Box(<<"h","a","n","d","b","a","g">>, 50, 10, 0, 40, 30)>>,
   <<Box(<<"d","o","g">>, 95, 0, 0, 40, 40), Box(<<"p","e","r","s","o","n">>, 85, 0, 5, 40, 40),
     Box(<<"t","i","e">>, 60, 0, 0, 20, 40), Box(<<"b","a","c","k","p","a","c","k">>, 70, 5, 5, 35, 35),
     Box(<<"s","u","i","t","c","a","s","e">>, 25, 0, 0, 40, 40), Box(<<"H","a","n","d","b","a","g">>, 45, 10, 10, 40, 40)>>,
   <<Box(<<"t","i","e">>, 30, 0, 0, 40, 40), Box(<<"b","e","n","c","h">>, 90, 0, 0, 40, 40)>>}

\* the colours of the blocks, left to right and top to bottom
BlockColors ==
  {<<Gray, Gray, Gray, Gray>>, <<Gray, Blue, Blue, Gray>>, <<Blue, Dark, Gray, Gray>>,
   <<Blue, Blue, Blue, Light>>, <<Dark, Light, Light, Dark>>}

Square(colors, boxes) ==
  [rows |-> 2, cols |-> 2,
   blocks |-> [p \in (0..1) \X (0..1) |-> colors[2 * p[1] + p[2] + 1]],
   boxes |-> boxes]

\* a tall and a wide image in which nothing is detected
Strip(rows, cols, color) ==
  [rows |-> rows, cols |-> cols,
   blocks |-> [p \in (0..(rows - 1)) \X (0..(cols - 1)) |-> color],
   boxes |-> <<>>]

Photos ==
  {Square(colors, boxes) : colors \in BlockColors, boxes \in BoxLists}
  \cup {Strip(2, 1, Blue), Strip(1, 2, Gray)}

-----------------------------------------------------------------------------
(* Calls of the system by a caller that holds the result of the detection  *)

AnalyzeClothingImage ==
  /\ op = "idle"
  /\ \E image \in Photos, yolo_model \in {"None", "YOLO"} :
       \E r \in analyze_clothing_image(image, yolo_model) :
         /\ op' = "FashionClassificationSystem.analyze_clothing_image"
         /\ arg' = [image |-> image, yolo_model |-> yolo_model]
         /\ ret' = r
         /\ UNCHANGED <<pending, earlier, caller_image, fields, alarm, pc>>

\* the caller was told of several items and names one of them, or a number
\* next to them
AnalyzeSelectedItem ==
  /\ op = "FashionClassificationSystem.analyze_clothing_image"
  /\ ret.multiple_items
  /\ \E item_id \in 0..(Len(ret.items) + 1) :
       \E r \in analyze_selected_item(arg.image, item_id, ret.items) :
         /\ op' = "FashionClassificationSystem.analyze_selected_item"
         /\ arg' = [image |-> arg.image, item_id |-> item_id, detected_items |-> ret.items]
         /\ ret' = r
         /\ UNCHANGED <<pending, earlier, caller_image, fields, alarm, pc>>

NextSelection ==
  \/ AnalyzeClothingImage
  \/ AnalyzeSelectedItem
  \/ Return

SpecSelection == Init /\ [][NextSelection]_vars

-----------------------------------------------------------------------------
(* The /analyze-fashion endpoint.  A request carries an image, and an      *)
(* item_selection when it answers a list of candidates.  The candidates    *)
(* listed for a session are kept for that session until they are listed    *)
(* anew; a selection is looked up in the list kept for its own session.    *)

\* the candidates are detected again in the image of the request, whatever
\* is kept for the session
analyze_fashion_recomputed(session, request, kept) ==
  IF "item_selection" \in DOMAIN request
  THEN {[response |-> r, pending |-> kept] :
        r \in analyze_selected_item(request.image, request.item_selection,
                                    detect_clothing_items(request.image, "YOLO"))}
  ELSE {[response |-> r,
         pending |-> IF r.multiple_items THEN [kept EXCEPT ![session] = r.items]
                     ELSE kept] :
        r \in analyze_clothing_image(request.image, "YOLO")}

analyze_fashion(session, request, kept) ==
  IF "item_selection" \in DOMAIN request
  THEN {[response |-> r, pending |-> kept] :
        r \in analyze_selected_item(request.image, request.item_selection,
                                    kept[session])}
  ELSE {[response |-> r,
         pending |-> IF r.multiple_items THEN [kept EXCEPT ![session] = r.items]
                     ELSE kept] :
        r \in analyze_clothing_image(request.image, "YOLO")}

\* the greatest item number a client sends
MaxSelection == 4

Requests ==
  {[image |-> image] : image \in Photos}
  \cup {[image |-> image, item_selection |-> n] :
          image \in Photos, n \in 0..MaxSelection}

PostAnalyzeFashion ==
  /\ op = "idle"
  /\ \E session \in Sessions, request \in Requests :
       \E out \in analyze_fashion(session, request, pending) :
         /\ op' = "POST /analyze-fashion"
         /\ arg' = [session |-> session, request |-> request]
         /\ ret' = out.response
         /\ pending' = out.pending
         /\ UNCHANGED <<earlier, caller_image, fields, alarm, pc>>

NextSession ==
  \/ PostAnalyzeFashion
  \/ Return

SpecSession == Init /\ [][NextSession]_vars

-----------------------------------------------------------------------------
(* The detect_clothing methods.  The boxes of the YOLO model hold their    *)
(* corners in tenths of a pixel and their confidence in hundredths; the    *)
(* confidence of a detection is in thousandths.  Each method gives the set *)
(* of lists it may return, one for each outcome of the colour analyses.    *)

\* int(v) of a coordinate that is not negative
int(v) == v \div 10

\* x1, y1, x2, y2 = map(int, box.xyxy[0])
Corners(box) == [k \in 1..4 |-> int(box.xyxy[k])]

\* the boxes with their corners as integers
Truncated(boxes) ==
  [i \in 1..Len(boxes) |-> [boxes[i] EXCEPT !.xyxy = Corners(boxes[i])]]

\* model(image, conf=...): the boxes above the confidence threshold of the
\* call, 0.25 when the call names none
Results(boxes, conf) == SelectSeq(boxes, LAMBDA box : box.conf > conf)

clothing_categories ==
  {<<"p","e","r","s","o","n">>, <<"s","h","i","r","t">>, <<"p","a","n","t","s">>, <<"s","h","o","e","s">>, <<"d","r","e","s","s">>, <<"j","a","c","k","e","t">>, <<"c","o","a","t">>,
   <<"h","a","t">>, <<"b","a","g">>, <<"t","i","e">>, <<"s","o","c","k","s">>, <<"g","l","o","v","e","s">>, <<"s","c","a","r","f">>, <<"b","e","l","t">>,
   <<"s","k","i","r","t">>, <<"s","h","o","r","t","s">>, <<"s","w","e","a","t","e","r">>, <<"h","o","o","d","i","e">>, <<"j","e","a","n","s">>, <<"s","n","e","a","k","e","r","s">>,
   <<"b","o","o","t","s">>, <<"s","a","n","d","a","l","s">>, <<"b","a","c","k","p","a","c","k">>, <<"h","a","n","d","b","a","g">>, <<"s","u","n","g","l","a","s","s","e","s">>}

is_fashion_item(class_name) ==
  AnyIn(<<<<"p","e","r","s","o","n">>, <<"s","h","i","r","t">>, <<"p","a","n","t","s">>, <<"d","r","e","s","s">>, <<"j","a","c","k","e","t">>, <<"s","h","o","e","s">>, <<"b","a","g">>, <<"h","a","t">>,
          <<"s","k","i","r","t">>, <<"s","h","o","r","t","s">>, <<"c","o","a","t">>, <<"h","o","o","d","i","e">>, <<"s","w","e","a","t","e","r">>, <<"j","e","a","n","s">>, <<"b","o","o","t","s">>,
          <<"s","n","e","a","k","e","r","s">>, <<"s","a","n","d","a","l","s">>, <<"t","-","s","h","i","r","t">>, <<"b","l","o","u","s","e">>, <<"b","l","a","z","e","r">>, <<"t","i","e">>, <<"s","o","c","k","s">>,
          <<"g","l","o","v","e","s">>, <<"s","c","a","r","f">>, <<"b","e","l","t">>, <<"b","a","c","k","p","a","c","k">>, <<"h","a","n","d","b","a","g">>, <<"s","u","n","g","l","a","s","s","e","s">>>>,
        Lower(class_name))

\* self._analyze_region_colors(region) of the detector
RegionColors(variant, region) ==
  {colors.value :
     colors \in IF variant = "ClothingDetector"
                  THEN ClothingDetector_analyze_region_colors(region)
                ELSE IF variant = "SimpleClothingDetector"
                  THEN SimpleClothingDetector_analyze_region_colors(region)
                ELSE EnhancedClothingDetector_analyze_region_colors(region)}

\* the dict appended to detections
Detection(variant, label, confidence, x1, y1, x2, y2, colors) ==
  LET detection ==
        [label |-> label, confidence |-> confidence,
         bounding_box |-> [x1 |-> x1, y1 |-> y1, x2 |-> x2, y2 |-> y2,
                           width |-> x2 - x1, height |-> y2 - y1],
         colors |-> colors]
  IN  IF variant = "EnhancedClothingDetector"
      THEN Update(detection, [attributes |-> get_basic_attributes(label),
                              segmentation_available |-> FALSE])
      ELSE detection

\* the box goes to person_detections
IsPerson(box) == Lower(box.class_name) = <<"p","e","r","s","o","n">> /\ box.conf > 30

\* the box goes to detections
IsItem(variant, box) ==
  LET lower == Lower(box.class_name)
      c == Corners(box)
  IN  IF variant = "ClothingDetector"
        THEN ~IsPerson(box) /\ lower \in clothing_categories /\ lower # <<"p","e","r","s","o","n">>
      ELSE IF variant = "EnhancedClothingDetector"
        THEN ~IsPerson(box) /\ lower # <<"p","e","r","s","o","n">> /\ is_fashion_item(box.class_name)
      ELSE /\ box.conf > 30
           /\ lower \in clothing_categories
           /\ ~((c[3] - c[1]) < 20 \/ (c[4] - c[2]) < 20)

\* the loop over the boxes, from box i on: the lists of detections
RECURSIVE Detections(_, _, _, _)
Detections(variant, image, boxes, i) ==
  IF i > Len(boxes) THEN {<<>>}
  ELSE LET box == boxes[i]
           c == Corners(box)
           rest == Detections(variant, image, boxes, i + 1)
       IN  IF IsItem(variant, box)
           THEN {<<Detection(variant, box.class_name, 10 * box.conf,
                             c[1], c[2], c[3], c[4], colors)>> \o r :
                   colors \in RegionColors(variant, Crop(image, c[1], c[2], c[3], c[4])),
                   r \in rest}
           ELSE rest

\* person_detections after the loop
PersonDetections(boxes) ==
  LET persons == SelectSeq(boxes, IsPerson)
  IN  [i \in 1..Len(persons) |->
         [box |-> Corners(persons[i]), confidence |-> persons[i].conf]]

\* a slip: the split also runs when clothing was detected
PersonFallbackAlways(detections, person_detections) ==
  person_detections # <<>>

\* if not detections and person_detections
PersonFallbackRuns(detections, person_detections) ==
  detections = <<>> /\ person_detections # <<>>

\* int(height * 0.6), int(height * 0.4): the product is the nearest double
\* of 6 * height / 10, which is the integer itself when that is whole
Tenths(n, height) == (n * height) \div 10

\* a region of a person, appended when its colour list is not empty
PersonRegion(variant, image, person, label, x1, y1, x2, y2) ==
  {IF colors # <<>>
   THEN <<Detection(variant, label, 8 * person.confidence, x1, y1, x2, y2, colors)>>
   ELSE <<>> :
     colors \in RegionColors(variant, Crop(image, x1, y1, x2, y2))}

\* the loop over person_detections, from person i on
RECURSIVE PersonRegions(_, _, _, _)
PersonRegions(variant, image, person_detections, i) ==
  IF i > Len(person_detections) THEN {<<>>}
  ELSE LET person == person_detections[i]
           x1 == person.box[1]
           y1 == person.box[2]
           x2 == person.box[3]
           y2 == person.box[4]
           height == y2 - y1
           upper_y2 == y1 + Tenths(6, height)
           lower_y1 == y1 + Tenths(4, height)
       IN  {upper \o lower \o rest :
              upper \in PersonRegion(variant, image, person, <<"s","h","i","r","t">>, x1, y1, x2, upper_y2),
              lower \in PersonRegion(variant, image, person, <<"p","a","n","t","s">>, x1, lower_y1, x2, y2),
              rest \in PersonRegions(variant, image, person_detections, i + 1)}

\* the body both detectors with a person fallback share
DetectWithPersons(variant, image, results) ==
  LET person_detections == PersonDetections(results)
  IN  UNION {IF PersonFallbackRuns(detections, person_detections)
             THEN PersonRegions(variant, image, person_detections, 1)
             ELSE {detections} :
               detections \in Detections(variant, image, results, 1)}

ClothingDetector_detect_clothing(image) ==
  DetectWithPersons("ClothingDetector", image, Results(image.boxes, 25))

EnhancedClothingDetector_detect_with_yolo(image) ==
  DetectWithPersons("EnhancedClothingDetector", image, Results(image.boxes, 30))

\* images here are never wider or higher than 640, so none is resized
SimpleClothingDetector_detect_clothing(image) ==
  Detections("SimpleClothingDetector", image, Results(image.boxes, 30), 1)

\* _detect_clothing_items on the boxes of the model
FashionClassificationSystem_detect_clothing_items(image) ==
  detect_clothing_items([image EXCEPT !.boxes = Truncated(image.boxes)], "YOLO")

-----------------------------------------------------------------------------
(* The images the detectors are called on                                  *)

\* what the YOLO model may report for an image of 2 x 2 blocks: nothing; a
\* person; a person and a tie; a person of low confidence; two persons, one
\* of them one pixel high; a tie less than a pixel wide beside a handbag; a
\* person next to no clothing; small and large items
DetectorBoxLists ==
  {<<>>,
   <<Box(<<"p","e","r","s","o","n">>, 80, 0, 0, 200, 400)>>,
   <<Box(<<"p","e","r","s","o","n">>, 80, 55, 0, 259, 352), Box(<<"t","i","e">>, 60, 100, 100, 300, 300)>>,
   <<Box(<<"p","e","r","s","o","n">>, 28, 0, 0, 200, 400)>>,
   <<Box(<<"p","e","r","s","o","n">>, 90, 0, 0, 200, 400), Box(<<"p","e","r","s","o","n">>, 50, 203, 107, 400, 119)>>,
   <<Box(<<"t","i","e">>, 70, 102, 50, 109, 300), Box(<<"h","a","n","d","b","a","g">>, 50, 0, 0, 300, 300)>>,
   <<Box(<<"d","o","g">>, 90, 0, 0, 400, 400), Box(<<"P","e","r","s","o","n">>, 60, 200, 0, 400, 155)>>,
   <<Box(<<"b","a","c","k","p","a","c","k">>, 45, 100, 100, 290, 350), Box(<<"s","p","o","r","t","s"," ","s","h","o","e","s">>, 40, 0, 0, 250, 250),
     Box(<<"H","a","n","d","b","a","g">>, 27, 0, 0, 100, 100)>>}

DetectorPhotos ==
  {Square(colors, boxes) : colors \in BlockColors, boxes \in DetectorBoxLists}

-----------------------------------------------------------------------------
(* Calls of the detectors                                                  *)

ClothingDetectorDetectClothing ==
  /\ op = "idle"
  /\ \E image \in DetectorPhotos :
       \E detections \in ClothingDetector_detect_clothing(image) :
         /\ op' = "ClothingDetector.detect_clothing"
         /\ arg' = [image |-> image]
         /\ ret' = detections
         /\ UNCHANGED <<pending, earlier, caller_image, fields, alarm, pc>>

SimpleDetectClothing ==
  /\ op = "idle"
  /\ \E image \in DetectorPhotos :
       \E detections \in SimpleClothingDetector_detect_clothing(image) :
         /\ op' = "SimpleClothingDetector.detect_clothing"
         /\ arg' = [image |-> image]
         /\ ret' = detections
         /\ UNCHANGED <<pending, earlier, caller_image, fields, alarm, pc>>

EnhancedDetectWithYolo ==
  /\ op = "idle"
  /\ \E image \in DetectorPhotos :
       \E detections \in EnhancedClothingDetector_detect_with_yolo(image) :
         /\ op' = "EnhancedClothingDetector._detect_with_yolo"
         /\ arg' = [image |-> image]
         /\ ret' = detections
         /\ UNCHANGED <<pending, earlier, caller_image, fields, alarm, pc>>

FashionDetectClothingItems ==
  /\ op = "idle"
  /\ \E image \in DetectorPhotos :
       /\ op' = "FashionClassificationSystem._detect_clothing_items"
       /\ arg' = [image |-> image]
       /\ ret' = FashionClassificationSystem_detect_clothing_items(image)
       /\ UNCHANGED <<pending, earlier, caller_image, fields, alarm, pc>>

NextDetect ==
  \/ ClothingDetectorDetectClothing
  \/ SimpleDetectClothing
  \/ EnhancedDetectWithYolo
  \/ FashionDetectClothingItems
  \/ Return

SpecDetect == Init /\ [][NextDetect]_vars

-----------------------------------------------------------------------------
(* The _get_color_name methods: the lookup in the table of webcolors and,  *)
(* when the try block raises, the rules of the except clause               *)

Abs(n) == IF n < 0 THEN -n ELSE n

\* ColorAnalyzer._classify_basic_color
classify_basic_color(rgb) ==
  LET r == rgb[1]
      g == rgb[2]
      b == rgb[3]
  IN  IF r > 200 /\ g > 200 /\ b > 200 THEN "white"
      ELSE IF r < 50 /\ g < 50 /\ b < 50 THEN "black"
      ELSE IF Abs(r - g) < 30 /\ Abs(g - b) < 30 /\ Abs(r - b) < 30
        THEN (IF r > 150 THEN "lightgray" ELSE IF r > 100 THEN "gray" ELSE "darkgray")
      ELSE IF r > g + 50 /\ r > b + 50 THEN (IF r > 200 THEN "red" ELSE "darkred")
      ELSE IF g > r + 50 /\ g > b + 50 THEN (IF g > 200 THEN "lime" ELSE "green")
      ELSE IF b > r + 50 /\ b > g + 50 THEN (IF b > 200 THEN "blue" ELSE "darkblue")
      ELSE IF r > 150 /\ g > 150 /\ b < 100 THEN "yellow"
      ELSE IF r > 150 /\ b > 150 /\ g < 100 THEN "magenta"
      ELSE IF g > 150 /\ b > 150 /\ r < 100 THEN "cyan"
      ELSE IF r > 100 /\ g > 50 /\ b < 50 THEN "brown"
      ELSE IF r > 200 /\ g > 100 /\ b < 50 THEN "orange"
      ELSE IF r > 150 /\ b > 100 /\ g < 100 THEN "purple"
      ELSE IF r > 200 /\ g > 150 /\ b > 150 THEN "pink"
      ELSE "mixed"

\* the except clause of ClothingDetector._get_color_name and of
\* EnhancedClothingDetector._get_color_name
ClothingDetector_basic_name(rgb) ==
  LET r == rgb[1]
      g == rgb[2]
      b == rgb[3]
  IN  IF r > 200 /\ g > 200 /\ b > 200 THEN "white"
      ELSE IF r < 50 /\ g < 50 /\ b < 50 THEN "black"
      ELSE IF r > g /\ r > b THEN "red"
      ELSE IF g > r /\ g > b THEN "green"
      ELSE IF b > r /\ b > g THEN "blue"
      ELSE IF r > 150 /\ g > 150 /\ b < 100 THEN "yellow"
      ELSE IF r > 150 /\ g < 100 /\ b > 150 THEN "magenta"
      ELSE IF r < 100 /\ g > 150 /\ b > 150 THEN "cyan"
      ELSE IF r > 150 /\ g < 150 /\ b < 150 THEN "orange"
      ELSE IF r < 150 /\ g > 150 /\ b < 150 THEN "lime"
      ELSE IF r < 150 /\ g < 150 /\ b > 150 THEN "navy"
      ELSE IF r > g /\ r > b THEN "red"
      ELSE IF g > r /\ g > b THEN "green"
      ELSE IF b > r /\ b > g THEN "blue"
      ELSE "gray"

\* the except clause of SimpleClothingDetector._get_color_name
SimpleClothingDetector_basic_name(rgb) ==
  LET r == rgb[1]
      g == rgb[2]
      b == rgb[3]
  IN  IF r > 200 /\ g > 200 /\ b > 200 THEN "white"
      ELSE IF r < 50 /\ g < 50 /\ b < 50 THEN "black"
      ELSE IF r > g /\ r > b THEN "red"
      ELSE IF g > r /\ g > b THEN "green"
      ELSE IF b > r /\ b > g THEN "blue"
      ELSE "mixed"

\* the except clause of FashionClassificationSystem._get_color_name
FashionClassificationSystem_basic_name(rgb) ==
  LET r == rgb[1]
      g == rgb[2]
      b == rgb[3]
  IN  IF r > 200 /\ g > 200 /\ b > 200 THEN "white"
      ELSE IF r < 50 /\ g < 50 /\ b < 50 THEN "black"
      ELSE IF r > g + 30 /\ r > b + 30 THEN "red"
      ELSE IF g > r + 30 /\ g > b + 30 THEN "green"
      ELSE IF b > r + 30 /\ b > g + 30 THEN "blue"
      ELSE IF r > 150 /\ g > 150 /\ b < 100 THEN "yellow"
      ELSE IF r > 100 /\ g > 50 /\ b < 50 THEN "brown"
      ELSE "mixed"

NameVariants ==
  {"ColorAnalyzer", "ClothingDetector", "EnhancedClothingDetector",
   "SimpleClothingDetector", "FashionClassificationSystem"}

\* _get_color_name of a class; the try block raises when this webcolors
\* has no CSS3_HEX_TO_NAMES
get_color_name_of(variant, rgb, table_available) ==
  IF table_available THEN get_color_name(rgb)
  ELSE IF variant = "ColorAnalyzer" THEN classify_basic_color(rgb)
  ELSE IF variant \in {"ClothingDetector", "EnhancedClothingDetector"}
    THEN ClothingDetector_basic_name(rgb)
  ELSE IF variant = "SimpleClothingDetector" THEN SimpleClothingDetector_basic_name(rgb)
  ELSE FashionClassificationSystem_basic_name(rgb)

\* values of a channel of a centre, on both sides of the limits of the rules
Levels == {0, 50, 64, 101, 128, 151, 201, 255}

Centers == Levels \X Levels \X Levels

GetColorName ==
  /\ op = "idle"
  /\ \E variant \in NameVariants, rgb \in Centers, table_available \in BOOLEAN :
       /\ op' = "_get_color_name"
       /\ arg' = [variant |-> variant, rgb |-> rgb, table_available |-> table_available]
       /\ ret' = get_color_name_of(variant, rgb, table_available)
       /\ UNCHANGED <<pending, earlier, caller_image, fields, alarm, pc>>

NextNames == GetColorName \/ Return

SpecNames == Init /\ [][NextNames]_vars

-----------------------------------------------------------------------------
(* Properties of the applicable styles                                     *)

\* the places in style_mappings of the styles whose item list holds the type
DirectPlaces(clothing_type) ==
  {i \in 1..Len(style_mappings) :
     \E j \in 1..Len(style_mappings[i].items) :
       style_mappings[i].items[j] = clothing_type}

\* the fallback rules in their order, as pairs of keywords and result
FallbackRules ==
  << [terms |-> {<<"t","-","s","h","i","r","t">>, <<"j","e","a","n","s">>, <<"h","o","o","d","i","e">>, <<"s","n","e","a","k","e","r","s">>},
      styles |-> <<<<"c","a","s","u","a","l">>, <<"s","t","r","e","e","t","w","e","a","r">>>>],
     [terms |-> {<<"b","l","a","z","e","r">>, <<"d","r","e","s","s","-","p","a","n","t","s">>, <<"b","u","t","t","o","n","-","s","h","i","r","t">>},
      styles |-> <<<<"b","u","s","i","n","e","s","s","-","o","f","f","i","c","e">>, <<"c","l","a","s","s","y","-","e","l","e","g","a","n","t">>>>],
     [terms |-> {<<"d","r","e","s","s">>, <<"g","o","w","n">>, <<"h","e","e","l","s">>},
      styles |-> <<<<"c","l","a","s","s","y","-","e","l","e","g","a","n","t">>, <<"e","v","e","n","i","n","g","-","f","o","r","m","a","l">>>>],
     [terms |-> {<<"a","t","h","l","e","t","i","c">>, <<"s","p","o","r","t","s">>, <<"g","y","m">>},
      styles |-> <<<<"a","t","h","l","e","i","s","u","r","e">>>>],
     [terms |-> {<<"v","i","n","t","a","g","e">>, <<"r","e","t","r","o">>},
      styles |-> <<<<"v","i","n","t","a","g","e","-","r","e","t","r","o">>>>] >>

RuleMatches(r, clothing_type) ==
  \E term \in FallbackRules[r].terms : Contains(Lower(clothing_type), term)

\* C11: when some style lists the type, the result is exactly those styles
\* in table order, with nothing of the fallback added; when none does, the
\* result is that of the first fallback rule a keyword of which the
\* lowercased type contains, and [casual] when no rule matches.
C11_DirectElseFallback ==
  op = "get_applicable_styles" =>
    LET places == DirectPlaces(arg)
        rules == {r \in 1..Len(FallbackRules) : RuleMatches(r, arg)}
    IN  IF places # {}
        THEN /\ Len(ret) = Cardinality(places)
             /\ \A k \in 1..Len(ret) :
                  \E i \in places :
                    /\ ret[k] = style_mappings[i].style
                    /\ Cardinality({h \in places : h < i}) = k - 1
        ELSE IF rules # {} THEN ret = FallbackRules[Least(rules)].styles
        ELSE ret = <<<<"c","a","s","u","a","l">>>>

\* jeans is listed by one style and also holds a keyword of the first
\* fallback rule: the result is the listed style alone
C11_Witness ==
  /\ op = "get_applicable_styles"
  /\ arg = <<"j","e","a","n","s">>
  /\ DirectPlaces(arg) # {}
  /\ RuleMatches(1, arg)
  /\ ret = <<<<"c","a","s","u","a","l">>>>

-----------------------------------------------------------------------------
(* Properties of the colour analysers                                      *)

RegionVariants ==
  {"ClothingDetector._analyze_region_colors",
   "SimpleClothingDetector._analyze_region_colors",
   "EnhancedClothingDetector._analyze_region_colors",
   "EnhancedClothingDetector._analyze_masked_colors",
   "FashionClassificationSystem._analyze_colors"}

ColorVariants == RegionVariants \cup {"ColorAnalyzer._get_dominant_colors"}

\* C1: every region variant called on a region or mask of zero pixels
\* returns the empty list, and no exception leaves the call.
C1_EmptyRegionEmptyList ==
  (op \in RegionVariants /\ Size(arg) = 0) => ret = Ok(<<>>)

C1_Witness ==
  /\ op = "ClothingDetector._analyze_region_colors"
  /\ Size(arg) = 0
  /\ ret = Ok(<<>>)

\* the least percentage the calling context lets through: 15 on the fast
\* path, 10 on the enhanced region path, 5 elsewhere
Threshold(variant) ==
  IF variant = "SimpleClothingDetector._analyze_region_colors" THEN 15
  ELSE IF variant = "EnhancedClothingDetector._analyze_region_colors" THEN 10
  ELSE 5

\* C2: every list a colour analyser returns is sorted by percentage in
\* non-increasing order, and no entry of it is below the threshold of the
\* calling context.
C2_SortedAboveThreshold ==
  (op \in ColorVariants /\ ~ret.raised) =>
    /\ \A i \in 1..(Len(ret.value) - 1) :
         ~PctLess(ret.value[i].percentage, ret.value[i + 1].percentage)
    /\ \A i \in 1..Len(ret.value) :
         ~PctLess(ret.value[i].percentage, PctOf(Threshold(op)))

\* C3: on a non-empty region of one colour every analyser returns exactly
\* one sample, with percentage 100 and the rgb of that colour.
C3_UniformRegionOneSample ==
  (op \in ColorVariants /\ Cardinality(DOMAIN arg) = 1) =>
    /\ ~ret.raised
    /\ Len(ret.value) = 1
    /\ ret.value[1].percentage.num = 100 * ret.value[1].percentage.den
    /\ SwapChannels(ret.value[1].rgb) \in DOMAIN arg

\* C4: on the image of four quadrants, red, blue, green and yellow, the
\* whole-image analysis returns exactly four samples, one per quadrant
\* colour, each with percentage 25.
C4_QuadrantsFourSamples ==
  (op = "ColorAnalyzer._get_dominant_colors" /\ arg = QuadrantImage) =>
    /\ ~ret.raised
    /\ Len(ret.value) = 4
    /\ {ret.value[i].rgb : i \in 1..Len(ret.value)} = QuadrantColors
    /\ \A i \in 1..Len(ret.value) :
         ret.value[i].percentage.num = 25 * ret.value[i].percentage.den

\* C17: the number of clusters requested is the lesser of the configured
\* maximum, 3 or 5, and the number of distinct colours among the pixels; it
\* is at least 1 and never more than the number of distinct colours.
C17_ClustersAtMostColors ==
  op = "n_clusters" =>
    /\ ret = Min(arg.max_clusters, Cardinality(DOMAIN arg.pixels))
    /\ ret >= 1
    /\ ret <= Cardinality(DOMAIN arg.pixels)

-----------------------------------------------------------------------------
(* Properties of the attribute methods                                     *)

LeatherBoots == <<"l","e","a","t","h","e","r"," ","b","o","o","t","s">>

Has(attributes, style, material, season, pattern, fit) ==
  /\ {"style", "material", "season", "pattern", "fit"} \subseteq DOMAIN attributes
  /\ attributes.style = style
  /\ attributes.material = material
  /\ attributes.season = season
  /\ attributes.pattern = pattern
  /\ attributes.fit = fit

RuleMethods ==
  {"EnhancedClothingDetector._get_heuristic_attributes",
   "EnhancedClothingDetector._get_mmfashion_attributes",
   "EnhancedClothingDetector._get_fashion_attributes"}

Mentions(class_name, terms) ==
  \E term \in terms : Contains(Lower(class_name), term)

\* C12: the style is that of the first rule that applies: a keyword of
\* {suit, blazer, tie, dress shirt} gives formal; else one of {sneakers,
\* sports, athletic, hoodie} gives sporty; else one of {jeans, t-shirt,
\* casual} gives casual; else a colour named black, white, gray or navy
\* gives formal; else casual.  So the colours count only for a label with
\* no keyword, and the earliest group decides.
C12_StyleLadder ==
  op = "EnhancedClothingDetector._predict_style_heuristic" =>
    ret = IF Mentions(arg.class_name, {<<"s","u","i","t">>, <<"b","l","a","z","e","r">>, <<"t","i","e">>, <<"d","r","e","s","s"," ","s","h","i","r","t">>})
            THEN "formal"
          ELSE IF Mentions(arg.class_name, {<<"s","n","e","a","k","e","r","s">>, <<"s","p","o","r","t","s">>, <<"a","t","h","l","e","t","i","c">>, <<"h","o","o","d","i","e">>})
            THEN "sporty"
          ELSE IF Mentions(arg.class_name, {<<"j","e","a","n","s">>, <<"t","-","s","h","i","r","t">>, <<"c","a","s","u","a","l">>})
            THEN "casual"
          ELSE IF \E i \in 1..Len(arg.colors) :
                    arg.colors[i].name \in {"black", "white", "gray", "navy"}
            THEN "formal"
          ELSE "casual"

\* a label of the second and of the third group, with a black colour
C12_Witness ==
  /\ op = "EnhancedClothingDetector._predict_style_heuristic"
  /\ arg.class_name = <<"s","p","o","r","t","s"," ","j","e","a","n","s">>
  /\ Len(arg.colors) = 1
  /\ arg.colors[1].name = "black"
  /\ ret = "sporty"

SeasonRules ==
  << [terms |-> {<<"c","o","a","t">>, <<"j","a","c","k","e","t">>, <<"s","w","e","a","t","e","r">>, <<"b","o","o","t","s">>}, season |-> "winter"],
     [terms |-> {<<"s","h","o","r","t","s">>, <<"s","a","n","d","a","l","s">>, <<"t","a","n","k">>, <<"s","u","m","m","e","r">>}, season |-> "summer"],
     [terms |-> {<<"c","a","r","d","i","g","a","n">>, <<"l","i","g","h","t"," ","j","a","c","k","e","t">>}, season |-> "spring-fall"] >>

\* C13: the season is that of the first rule a keyword of which the
\* lowercased label contains, all-season when there is none, whatever the
\* colours; and a label that is itself a keyword of a rule, light jacket
\* among them, gets the season of that rule.
C13_SeasonLadder ==
  op = "EnhancedClothingDetector._predict_season_heuristic" =>
    LET rules == {r \in 1..Len(SeasonRules) : Mentions(arg.class_name, SeasonRules[r].terms)}
    IN  /\ ret = IF rules = {} THEN "all-season" ELSE SeasonRules[Least(rules)].season
        /\ \A r \in 1..Len(SeasonRules) :
             arg.class_name \in SeasonRules[r].terms => ret = SeasonRules[r].season

Materials == {"denim", "leather", "cotton", "wool", "silk"}

\* C14: the material is that of the first rule that applies: jean gives
\* denim; else leather or boots gives leather; else cotton or t-shirt
\* gives cotton; else wool or sweater gives wool; else silk or dress gives
\* silk; else cotton.  It is always one of the five materials, and the
\* label wool sweater has material wool and season winter.
C14_MaterialLadder ==
  /\ op = "EnhancedClothingDetector._predict_material_heuristic" =>
       /\ ret = IF Mentions(arg.class_name, {<<"j","e","a","n">>}) THEN "denim"
                ELSE IF Mentions(arg.class_name, {<<"l","e","a","t","h","e","r">>, <<"b","o","o","t","s">>}) THEN "leather"
                ELSE IF Mentions(arg.class_name, {<<"c","o","t","t","o","n">>, <<"t","-","s","h","i","r","t">>}) THEN "cotton"
                ELSE IF Mentions(arg.class_name, {<<"w","o","o","l">>, <<"s","w","e","a","t","e","r">>}) THEN "wool"
                ELSE IF Mentions(arg.class_name, {<<"s","i","l","k">>, <<"d","r","e","s","s">>}) THEN "silk"
                ELSE "cotton"
       /\ ret \in Materials
       /\ arg.class_name = <<"w","o","o","l"," ","s","w","e","a","t","e","r">> => ret = "wool"
  /\ (/\ op = "EnhancedClothingDetector._predict_season_heuristic"
      /\ arg.class_name = <<"w","o","o","l"," ","s","w","e","a","t","e","r">>) => ret = "winter"

C14_Witness ==
  /\ op = "EnhancedClothingDetector._predict_material_heuristic"
  /\ arg.class_name = <<"w","o","o","l"," ","s","w","e","a","t","e","r">>
  /\ ret = "wool"

\* C15: every path that attaches attributes returns all five of them, each
\* within its vocabulary, and for a label with no keyword, with no colours
\* and no mask, they are style casual, season all-season, material cotton,
\* pattern solid, fit regular.
C15_DefaultsOnEveryPath ==
  op \in RuleMethods \cup {"EnhancedClothingDetector._get_basic_attributes"} =>
    /\ {"style", "season", "material", "pattern", "fit"} \subseteq DOMAIN ret
    /\ ret.style \in {"casual", "formal", "sporty"}
    /\ ret.season \in {"winter", "summer", "spring-fall", "all-season"}
    /\ ret.material \in Materials
    /\ ret.pattern \in {"solid", "patterned"}
    /\ ret.fit \in {"regular", "tight", "loose"}
    /\ (/\ arg.class_name = <<"h","a","n","d","b","a","g">>
        /\ op \in RuleMethods => arg.mask.cells = {})
       => Has(ret, "casual", "cotton", "all-season", "solid", "regular")

-----------------------------------------------------------------------------
(* Properties of the selection among several items                         *)

\* the colour lists _analyze_colors may return for the box of an item
ColorsOfBox(image, item) ==
  {colors.value :
     colors \in FashionClassificationSystem_analyze_colors(
                  Crop(image, item.bounding_box.x1, item.bounding_box.y1,
                       item.bounding_box.x2, item.bounding_box.y2))}

\* the full analysis of one item: its type, its styles, its colours
IsAnalysisOf(analysis, image, item) ==
  /\ analysis.detected_as = item.label
  /\ analysis.confidence = item.confidence
  /\ analysis.clothing_type = classify_clothing_type(item.label)
  /\ analysis.applicable_styles = get_applicable_styles(analysis.clothing_type)
  /\ analysis.colors \in ColorsOfBox(image, item)

\* C8: when n > 1 items are detected, analyze_clothing_image answers
\* multiple_items with exactly these n candidates, none of which carries a
\* type, styles or colours, and no analysis; a following
\* analyze_selected_item with 1 <= item_id <= n returns the full analysis
\* of the candidate at that place, from that candidate's bounding box.
C8_TwoPhaseSelection ==
  /\ (/\ op = "FashionClassificationSystem.analyze_clothing_image"
      /\ Len(detect_clothing_items(arg.image, arg.yolo_model)) > 1)
     => /\ ret.success /\ ret.multiple_items
        /\ "analysis" \notin DOMAIN ret
        /\ ret.items = detect_clothing_items(arg.image, arg.yolo_model)
        /\ \A i \in 1..Len(ret.items) :
             DOMAIN ret.items[i] = {"id", "label", "confidence", "bounding_box"}
  /\ (/\ op = "FashionClassificationSystem.analyze_selected_item"
      /\ arg.item_id \in 1..Len(arg.detected_items))
     => /\ ret.success
        /\ "items" \notin DOMAIN ret
        /\ IsAnalysisOf(ret.analysis, arg.image, arg.detected_items[arg.item_id])

C8_Witness ==
  /\ op = "FashionClassificationSystem.analyze_selected_item"
  /\ Len(arg.detected_items) = 3
  /\ arg.item_id = 2
  /\ ret.success
  /\ ret.analysis.detected_as = <<"b","a","c","k","p","a","c","k">>
  /\ ret.analysis.colors # <<>>

-----------------------------------------------------------------------------
(* Properties of the endpoint                                              *)

IsSelection == op' = "POST /analyze-fashion" /\ "item_selection" \in DOMAIN arg'.request

IsListing ==
  /\ op' = "POST /analyze-fashion"
  /\ "item_selection" \notin DOMAIN arg'.request
  /\ ret'.multiple_items

-----------------------------------------------------------------------------
(* Properties of the detectors                                             *)

SplittingOps ==
  {"ClothingDetector.detect_clothing", "EnhancedClothingDetector._detect_with_yolo"}

VariantOf(method) ==
  IF method = "ClothingDetector.detect_clothing" THEN "ClothingDetector"
  ELSE IF method = "EnhancedClothingDetector._detect_with_yolo"
    THEN "EnhancedClothingDetector"
  ELSE "SimpleClothingDetector"

\* the boxes the model reports to the method
ResultsOf(method, image) ==
  Results(image.boxes, IF method = "ClothingDetector.detect_clothing" THEN 25 ELSE 30)

\* the clothing boxes and the person boxes among them
ItemBoxes(method, image) ==
  SelectSeq(ResultsOf(method, image), LAMBDA box : IsItem(VariantOf(method), box))

PersonBoxes(method, image) == SelectSeq(ResultsOf(method, image), IsPerson)

\* shirt and pants of each person, in this order: entry 2k - 1 is the shirt
\* of person k over rows [y1, y1 + int(0.6 h)), entry 2k the pants over
\* rows [y1 + int(0.4 h), y2), both across the person's x-range and with
\* 0.8 of the person's confidence
SplitOf(persons) ==
  [k \in 1..(2 * Len(persons)) |->
     LET person == persons[(k + 1) \div 2]
         c == Corners(person)
         h == c[4] - c[2]
     IN  IF k % 2 = 1
         THEN [label |-> <<"s","h","i","r","t">>, confidence |-> 8 * person.conf,
               x1 |-> c[1], y1 |-> c[2], x2 |-> c[3], y2 |-> c[2] + (6 * h) \div 10]
         ELSE [label |-> <<"p","a","n","t","s">>, confidence |-> 8 * person.conf,
               x1 |-> c[1], y1 |-> c[2] + (4 * h) \div 10, x2 |-> c[3], y2 |-> c[4]]]

IsDetectionOf(detection, e) ==
  /\ detection.label = e.label
  /\ detection.confidence = e.confidence
  /\ detection.bounding_box.x1 = e.x1
  /\ detection.bounding_box.y1 = e.y1
  /\ detection.bounding_box.x2 = e.x2
  /\ detection.bounding_box.y2 = e.y2

\* with clothing detected, or no person: the clothing boxes and nothing else
IsItemsOnly(detections, items) ==
  /\ Len(detections) = Len(items)
  /\ \A k \in 1..Len(items) :
       /\ Lower(detections[k].label) # <<"p","e","r","s","o","n">>
       /\ IsDetectionOf(detections[k],
            [label |-> items[k].class_name, confidence |-> 10 * items[k].conf,
             x1 |-> Corners(items[k])[1], y1 |-> Corners(items[k])[2],
             x2 |-> Corners(items[k])[3], y2 |-> Corners(items[k])[4]])

\* C16 as stated: the split runs exactly when no clothing box and at least
\* one person box above 0.3 was reported; then the result is the shirt and
\* the pants of each person, in this order; otherwise the result is the
\* clothing boxes alone, none of them a person.
C16_PersonFallback ==
  op \in SplittingOps =>
    LET items == ItemBoxes(op, arg.image)
        persons == PersonBoxes(op, arg.image)
        split == SplitOf(persons)
    IN  IF items = <<>> /\ persons # <<>>
        THEN /\ Len(ret) = Len(split)
             /\ \A k \in 1..Len(split) : IsDetectionOf(ret[k], split[k])
        ELSE IsItemsOnly(ret, items)

\* C16, amended: as stated, except that the shirt or the pants of a person
\* is in the result only if the colour analysis of its region returned at
\* least one colour; the result is the list of these, in the same order.
C16_PersonFallbackWithColors ==
  op \in SplittingOps =>
    LET items == ItemBoxes(op, arg.image)
        persons == PersonBoxes(op, arg.image)
        split == SplitOf(persons)
        region(k) == Crop(arg.image, split[k].x1, split[k].y1, split[k].x2, split[k].y2)
    IN  IF items = <<>> /\ persons # <<>>
        THEN \E kept \in SUBSET (1..Len(split)) :
               /\ Len(ret) = Cardinality(kept)
               /\ \A k \in kept :
                    LET detection == ret[Cardinality({h \in kept : h <= k})]
                    IN  /\ IsDetectionOf(detection, split[k])
                        /\ detection.colors # <<>>
                        /\ detection.colors \in RegionColors(VariantOf(op), region(k))
               /\ \A k \in (1..Len(split)) \ kept :
                    <<>> \in RegionColors(VariantOf(op), region(k))
        ELSE IsItemsOnly(ret, items)

\* two persons and no clothing; the second person is one pixel high, so
\* its upper region has no pixel: a shirt and two pants are returned
C16_Witness ==
  /\ op = "ClothingDetector.detect_clothing"
  /\ Len(PersonBoxes(op, arg.image)) = 2
  /\ ItemBoxes(op, arg.image) = <<>>
  /\ Len(ret) = 3
  /\ ret[1].label = <<"s","h","i","r","t">> /\ ret[2].label = <<"p","a","n","t","s">> /\ ret[3].label = <<"p","a","n","t","s">>
  /\ ret[1].confidence = 720
  /\ ret[1].bounding_box.y2 = 24
  /\ ret[2].bounding_box.y1 = 16

DetectOps ==
  SplittingOps \cup {"SimpleClothingDetector.detect_clothing",
                     "FashionClassificationSystem._detect_clothing_items"}

\* C20: every detection a detector returns, and every candidate the
\* classification system lists, has a bounding box with x2 > x1 and
\* y2 > y1.
C20_BoxesHaveArea ==
  op \in DetectOps =>
    \A i \in 1..Len(ret) :
      /\ ret[i].bounding_box.x2 > ret[i].bounding_box.x1
      /\ ret[i].bounding_box.y2 > ret[i].bounding_box.y1

-----------------------------------------------------------------------------
(* Properties of the colour names                                          *)

\* the places in the table of the entries nearest to rgb
NearestPlaces(rgb) ==
  LET d(i) == SqDist(CSS3_HEX_TO_NAMES[i].rgb, rgb)
      least == Least({d(i) : i \in 1..Len(CSS3_HEX_TO_NAMES)})
  IN  {i \in 1..Len(CSS3_HEX_TO_NAMES) : d(i) = least}

\* C18: the name returned from the table is that of an entry at the least
\* squared distance from the centre, and of the first such entry of the
\* table when there are several.
C18_FirstNearest ==
  (op = "_get_color_name" /\ arg.table_available) =>
    ret = CSS3_HEX_TO_NAMES[Least(NearestPlaces(arg.rgb))].name

\* C19: without the table every variant names the centre specifically,
\* never "mixed": white when all channels are above 200, black when all are
\* below 50.
C19_NeverMixed ==
  (op = "_get_color_name" /\ ~arg.table_available) =>
    /\ ret # "mixed"
    /\ (\A i \in 1..3 : arg.rgb[i] > 200) => ret = "white"
    /\ (\A i \in 1..3 : arg.rgb[i] < 50) => ret = "black"

-----------------------------------------------------------------------------
(* Properties of the returned colour samples                               *)

\* the configured maximum number of clusters: 3 for a box region, 5 for a
\* mask and for a whole image
MaxClustersOf(variant) ==
  IF variant \in {"ClothingDetector._analyze_region_colors",
                  "SimpleClothingDetector._analyze_region_colors",
                  "EnhancedClothingDetector._analyze_region_colors"}
  THEN 3 ELSE 5

\* C21: every sample a colour analyser returns has a percentage above 0 and
\* at most 100 and rgb components that are integers from 0 to 255, and no
\* more samples are returned than the configured maximum of clusters.
C21_SamplesInRange ==
  (op \in ColorVariants /\ ~ret.raised) =>
    /\ Len(ret.value) <= MaxClustersOf(op)
    /\ \A i \in 1..Len(ret.value) :
         /\ PctLess(PctOf(0), ret.value[i].percentage)
         /\ ~PctLess(PctOf(100), ret.value[i].percentage)
         /\ \A ch \in 1..3 : ret.value[i].rgb[ch] \in 0..255

-----------------------------------------------------------------------------
(* Repeated calls of the analysers that sample.  KMeans is built with      *)
(* random_state=42, so its fit is a fixed function of the samples it is    *)
(* given; np.random.choice draws from numpy's global generator, which is   *)
(* never seeded, so any draw may come out of a call.                       *)

\* KMeans(n_clusters, random_state=42, ...).fit(pixels): one fixed member of
\* the lists the fits can leave
Seeded(outcomes) == CHOOSE o \in outcomes : TRUE

SampledVariants ==
  {"SimpleClothingDetector._analyze_region_colors",
   "EnhancedClothingDetector._analyze_region_colors",
   "FashionClassificationSystem._analyze_colors"}

\* if len(pixels) > 1000 (2000 in FashionClassificationSystem)
SampleLimit(variant) ==
  IF variant = "FashionClassificationSystem._analyze_colors" THEN 2000 ELSE 1000

\* the pixels that reach the sampling step: all of them, in
\* FashionClassificationSystem those left by the noise filter
BeforeSampling(variant, pixels) ==
  IF variant = "FashionClassificationSystem._analyze_colors"
  THEN LET mask(c) == (\A i \in 1..3 : c[i] > 15) /\ (\A i \in 1..3 : c[i] < 240)
           kept == Select(pixels, mask)
       IN  IF Size(kept) < 10 THEN pixels ELSE kept
  ELSE pixels

\* the clustering of the sampled pixels, with the fit fixed by the seed
ClusterSampled(variant, sampled) ==
  LET max_clusters == IF variant = "FashionClassificationSystem._analyze_colors"
                      THEN 5 ELSE 3
      min_percentage ==
        IF variant = "SimpleClothingDetector._analyze_region_colors" THEN 15
        ELSE IF variant = "EnhancedClothingDetector._analyze_region_colors" THEN 10
        ELSE 5
      k == Min(max_clusters, unique_count(sampled))
  IN  IF k < 1 THEN Ok(<<>>)
      ELSE Seeded(Sorted(sampled, k, min_percentage, TRUE))

\* the results a call of a sampling analyser may have: one per draw
analyze_sampled(variant, region) ==
  TryExcept(
    IF Size(region) = 0 THEN {Ok(<<>>)}
    ELSE LET outcomes ==
               {ClusterSampled(variant, sampled) :
                  sampled \in Subsamples(BeforeSampling(variant, cvtColor(region)),
                                         SampleLimit(variant))}
         IN  IF variant = "FashionClassificationSystem._analyze_colors"
             THEN WithFashionNames(outcomes) ELSE WithNames(outcomes),
    <<>>)

\* regions around the two sampling limits: one colour, and one colour with
\* a few pixels of a second one; with them two small regions
SamplingRegions ==
  {cvtColor(im) :
     im \in {(<<255, 0, 0>> :> 1001),
             (<<255, 0, 0>> :> 990) @@ (<<0, 0, 255>> :> 20),
             (<<255, 0, 0>> :> 1990) @@ (<<0, 0, 255>> :> 20),
             (<<255, 0, 0>> :> 4) @@ (<<0, 0, 255>> :> 4),
             (<<255, 0, 0>> :> 30) @@ (<<0, 0, 255>> :> 4)}}

AnalyzeSampled ==
  /\ op = "idle"
  /\ \E variant \in SampledVariants, region \in SamplingRegions :
       \E r \in analyze_sampled(variant, region) :
         /\ op' = variant
         /\ arg' = region
         /\ ret' = r
         /\ UNCHANGED <<pending, earlier, caller_image, fields, alarm, pc>>

\* the caller keeps the list it was given, to compare it with a later one
KeepResult ==
  /\ op \in SampledVariants
  /\ earlier' = [op |-> op, arg |-> arg, ret |-> ret]
  /\ op' = "idle"
  /\ arg' = <<>>
  /\ ret' = <<>>
  /\ UNCHANGED <<pending, caller_image, fields, alarm, pc>>

NextSampling ==
  \/ AnalyzeSampled
  \/ KeepResult
  \/ Return

SpecSampling == Init /\ [][NextSampling]_vars

\* C22: two calls of a colour analyser on the same region return the same
\* list, whatever calls were made before or between them, also on regions
\* of more than 1000 (2000) pixels, of which the analyser takes a sample.
C22_SameRegionSameColors ==
  (op \in SampledVariants /\ earlier.op = op /\ earlier.arg = arg) =>
    ret = earlier.ret

-----------------------------------------------------------------------------
(* The entry points called on an image object of the caller.  An image     *)
(* object holds its size and its pixel data; the data is a photo of the    *)
(* model or the resampling of one.                                         *)

\* Image.open(...).convert('RGB') of a photo
Opened(photo) == [size |-> <<Width(photo), Height(photo)>>, im |-> photo]

IsResampled(image) == "resampled" \in DOMAIN image.im

\* round_aspect of Image.thumbnail: of floor and ceil of num / den the one
\* with the smaller key, floor on a tie, and at least 1
round_aspect(num, den, key(_)) ==
  LET floor == num \div den
      ceil == IF num % den = 0 THEN floor ELSE floor + 1
  IN  Max(IF key(ceil) < key(floor) THEN ceil ELSE floor, 1)

\* the size Image.thumbnail((x, y)) gives an image of width x height; the
\* keys |aspect - n / y| and |aspect - x / n| are compared after
\* multiplication by height * y and by height * floor * ceil
thumbnail_size(width, height, x, y) ==
  IF x >= width /\ y >= height THEN <<width, height>>
  ELSE IF x * height >= width * y
       THEN <<round_aspect(y * width, height, LAMBDA n : Abs(width * y - n * height)), y>>
       ELSE LET f == (x * height) \div width
                c == IF (x * height) % width = 0 THEN f ELSE f + 1
                key(n) == IF n = 0 THEN 0
                          ELSE Abs(width * n - x * height) * (IF n = f THEN c ELSE f)
            IN  <<x, round_aspect(x * height, width, key)>>

\* image.thumbnail((max_size, max_size), Image.Resampling.LANCZOS): the
\* image object itself takes the new size and the resampled data.  The YOLO
\* model reports nothing for the resampled photos of the model.
thumbnail(image, max_size) ==
  LET final_size == thumbnail_size(image.size[1], image.size[2], max_size, max_size)
  IN  IF image.size # final_size
      THEN [size |-> final_size,
            im |-> [resampled |-> image.im, boxes |-> <<>>]]
      ELSE image

\* np.array(image).reshape(-1, 3): the photos that are resampled are of one
\* colour, and so is their resampling
Pixels(image) ==
  IF IsResampled(image)
  THEN (image.im.resampled.blocks[<<0, 0>>] :> image.size[1] * image.size[2])
  ELSE Crop(image.im, 0, 0, image.size[1], image.size[2])

\* SimpleClothingDetector.detect_clothing: the image after the call and the
\* detections
SimpleClothingDetector_detect_clothing_in_place(image) ==
  LET shrunk == IF image.size[1] > 640 \/ image.size[2] > 640
                THEN thumbnail(image, 640) ELSE image
  IN  {[image |-> shrunk, detections |-> detections] :
         detections \in SimpleClothingDetector_detect_clothing(shrunk.im)}

\* ColorAnalyzer._generate_color_description: the sentence, as its parts
ColorAnalyzer_generate_color_description(colors) ==
  IF colors = <<>> THEN <<"No significant colors detected.">>
  ELSE IF Len(colors) = 1
       THEN <<"The clothing item is primarily", colors[1].name, colors[1].percentage>>
       ELSE <<"The clothing item contains:",
              [i \in 1..Min(3, Len(colors)) |-> <<colors[i].percentage, colors[i].name>>],
              IF Len(colors) > 3 THEN "and other colors." ELSE ".">>

\* cv2.resize(image, (new_width, new_height)) of _get_dominant_colors for an
\* image higher or wider than 300: a new array; of a one-colour image only
\* the number of pixels changes
Resized(pixels, width, height) ==
  IF height > 300 \/ width > 300
  THEN LET side == Max(width, height)
           new_width == (300 * width) \div side
           new_height == (300 * height) \div side
       IN  IF new_width * new_height = 0 THEN <<>>
           ELSE [c \in DOMAIN pixels |-> new_width * new_height]
  ELSE pixels

\* ColorAnalyzer.analyze_colors: np.array(image) and what follows work on
\* arrays of their own
ColorAnalyzer_analyze_colors(image) ==
  {[dominant_colors |-> dominant_colors.value,
    description |-> ColorAnalyzer_generate_color_description(dominant_colors.value),
    total_colors |-> Len(dominant_colors.value)] :
   dominant_colors \in ColorAnalyzer_get_dominant_colors(
                         Resized(Pixels(image), image.size[1], image.size[2]))}

\* the photos a caller opens: small ones with what the model reports in
\* them, and one-colour photos around the limit of 640 pixels
FramePhotos ==
  {Square(colors, boxes) :
     colors \in {<<Gray, Gray, Gray, Gray>>, <<Gray, Blue, Blue, Gray>>},
     boxes \in {<<>>, <<Box(<<"t","i","e">>, 70, 0, 0, 400, 400)>>,
                <<Box(<<"p","e","r","s","o","n">>, 80, 0, 0, 200, 400), Box(<<"h","a","n","d","b","a","g">>, 50, 0, 0, 300, 300)>>}}
  \cup {Strip(1, 32, Gray), Strip(1, 33, Gray), Strip(33, 1, Blue), Strip(2, 33, Blue)}

\* the caller decodes a photo into an image object
Open ==
  /\ op = "idle"
  /\ \E photo \in FramePhotos : caller_image' = Opened(photo)
  /\ UNCHANGED <<op, arg, ret, pending, earlier, fields, alarm, pc>>

SimpleDetectClothingInPlace ==
  /\ op = "idle"
  /\ caller_image # NoImage
  /\ \E out \in SimpleClothingDetector_detect_clothing_in_place(caller_image) :
       /\ op' = "SimpleClothingDetector.detect_clothing"
       /\ arg' = [self |-> fields.SimpleClothingDetector, image |-> caller_image]
       /\ ret' = out.detections
       /\ caller_image' = out.image
       /\ UNCHANGED <<pending, earlier, fields, alarm, pc>>

ClothingDetectorDetectOnImage ==
  /\ op = "idle"
  /\ caller_image # NoImage
  /\ \E detections \in ClothingDetector_detect_clothing(caller_image.im) :
       /\ op' = "ClothingDetector.detect_clothing"
       /\ arg' = [self |-> <<>>, image |-> caller_image]
       /\ ret' = detections
       /\ UNCHANGED <<pending, earlier, caller_image, fields, alarm, pc>>

ColorAnalyzerAnalyzeColors ==
  /\ op = "idle"
  /\ caller_image # NoImage
  /\ \E result \in ColorAnalyzer_analyze_colors(caller_image) :
       /\ op' = "ColorAnalyzer.analyze_colors"
       /\ arg' = [self |-> fields.ColorAnalyzer, image |-> caller_image]
       /\ ret' = result
       /\ UNCHANGED <<pending, earlier, caller_image, fields, alarm, pc>>

NextFrame ==
  \/ Open
  \/ SimpleDetectClothingInPlace
  \/ ClothingDetectorDetectOnImage
  \/ ColorAnalyzerAnalyzeColors
  \/ Return

SpecFrame == Init /\ [][NextFrame]_vars

FrameOps ==
  {"SimpleClothingDetector.detect_clothing", "ColorAnalyzer.analyze_colors"}

\* C23: when detect_clothing(image) or analyze_colors(image) has returned,
\* the image object of the caller has the size and the pixels it had before
\* the call, and the fields of the instance are what they were.
C23_CallerImageUnchanged ==
  op \in FrameOps =>
    /\ caller_image = arg.image
    /\ fields[IF op = "ColorAnalyzer.analyze_colors"
              THEN "ColorAnalyzer" ELSE "SimpleClothingDetector"] = arg.self

-----------------------------------------------------------------------------
(* The request handlers of the servers.  A request body is the value       *)
(* get_json() or json.loads returns; the tests of the handlers are those   *)
(* of Python: "not data" is true of None, False, 0, "", [] and {}, the     *)
(* operator "in" raises TypeError on a number or a bool, tests elements    *)
(* on a list and substrings on a string, and data['image'] raises          *)
(* TypeError on a list or a string.                                        *)

JsonNull == [kind |-> "null"]

JsonBool(b) == [kind |-> "bool", bool |-> b]

JsonNumber(n) == [kind |-> "number", number |-> n]

JsonString(s) == [kind |-> "string", chars |-> s]

JsonArray(elements) == [kind |-> "array", elements |-> elements]

JsonObject(members) == [kind |-> "object", members |-> members]

\* a base64 string that decodes to the photo
Base64(photo) == [kind |-> "base64", photo |-> photo]

\* not data
Falsy(data) ==
  \/ data.kind = "null"
  \/ data.kind = "bool" /\ ~data.bool
  \/ data.kind = "number" /\ data.number = 0
  \/ data.kind = "string" /\ data.chars = <<>>
  \/ data.kind = "array" /\ data.elements = <<>>
  \/ data.kind = "object" /\ DOMAIN data.members = {}

\* 'image' in data
HasImage(data) ==
  IF data.kind = "object" THEN Ok("image" \in DOMAIN data.members)
  ELSE IF data.kind = "array"
       THEN Ok(\E i \in 1..Len(data.elements) : data.elements[i] = JsonString(<<"i","m","a","g","e">>))
  ELSE IF data.kind = "string" THEN Ok(Contains(data.chars, <<"i","m","a","g","e">>))
  ELSE Raise

\* data['image']
GetImage(data) == IF data.kind = "object" THEN Ok(data.members.image) ELSE Raise

\* decode_base64_image: the image object, or None on any exception
decode_base64_image(base64_string) ==
  IF base64_string.kind = "base64" THEN Opened(base64_string.photo) ELSE NoImage

Response(status, body) == [status |-> status, body |-> body]

Failure(status, error) == Response(status, [success |-> FALSE, error |-> error])

\* the loop that copies label, confidence, bounding_box and colors
FormatItems(detections) ==
  [i \in 1..Len(detections) |->
     [label |-> detections[i].label, confidence |-> detections[i].confidence,
      bounding_box |-> detections[i].bounding_box, colors |-> detections[i].colors]]

ItemsFound(detections) ==
  Response(200, [success |-> TRUE, items |-> FormatItems(detections),
                 total_items |-> Len(detections)])

\* the loop that copies name, rgb and percentage
FormatColors(colors) ==
  [i \in 1..Len(colors) |->
     [name |-> colors[i].name, rgb |-> colors[i].rgb,
      percentage |-> colors[i].percentage]]

\* the tests every handler makes before it looks at the model: the response
\* that ends the request, or the decoded image.  too_large is the limit of
\* the image size test, 0 in a server that has none.
Validate(data, too_large, no_image, invalid_image, large_image, internal_error) ==
  IF Falsy(data) THEN [response |-> Failure(400, no_image)]
  ELSE IF HasImage(data).raised THEN [response |-> Failure(500, internal_error)]
  ELSE IF ~HasImage(data).value THEN [response |-> Failure(400, no_image)]
  ELSE IF GetImage(data).raised THEN [response |-> Failure(500, internal_error)]
  ELSE LET image == decode_base64_image(GetImage(data).value)
       IN  IF image = NoImage THEN [response |-> Failure(400, invalid_image)]
           ELSE IF too_large > 0 /\ (image.size[1] > too_large \/ image.size[2] > too_large)
                THEN [response |-> Failure(400, large_image)]
           ELSE [image |-> image]

Passed(validation) == "image" \in DOMAIN validation

\* start_http_server.AIRequestHandler.handle_detect_clothing; the error of
\* an exception is str(e)
handle_detect_clothing(data, clothing_detector) ==
  LET validation == Validate(data, 0, "No image data", "Invalid image", "", "str(e)")
  IN  IF ~Passed(validation) THEN {validation.response}
      ELSE IF clothing_detector = "None" THEN {Failure(500, "AI models not loaded")}
      ELSE {ItemsFound(out.detections) :
              out \in SimpleClothingDetector_detect_clothing_in_place(validation.image)}

\* start_enhanced_server.analyze_colors
enhanced_analyze_colors(data, color_analyzer) ==
  LET validation == Validate(data, 0, "No image data provided", "Invalid image data",
                             "", "str(e)")
  IN  IF ~Passed(validation) THEN {validation.response}
      ELSE IF color_analyzer = "None" THEN {Failure(500, "Color analyzer not initialized")}
      ELSE {Response(200, [success |-> TRUE,
                           dominant_colors |-> FormatColors(color_analysis.dominant_colors),
                           description |-> color_analysis.description,
                           analysis_method |-> "Enhanced clustering"]) :
              color_analysis \in ColorAnalyzer_analyze_colors(validation.image)}

\* start_wifi_server.detect_clothing up to signal.alarm(30): the response
\* that ends the request, or the image that goes to the detector.
\* signal.signal raises ValueError in a thread that is not the main thread.
wifi_detect_clothing_begin(data, clothing_detector, main_thread) ==
  LET validation ==
        Validate(data, 2000, "No image data provided", "Invalid image data",
                 "Image too large. Please use images smaller than 2000x2000 pixels.",
                 "Internal server error. Please try again.")
  IN  IF ~Passed(validation) THEN validation
      ELSE IF clothing_detector = "None"
           THEN [response |-> Failure(500, "Clothing detector not initialized")]
      ELSE IF ~main_thread
           THEN [response |-> Failure(500, "Internal server error. Please try again.")]
      ELSE validation

\* a TimeoutError raised inside _analyze_region_colors is caught there, and
\* the colours of the box in work are []
WithoutColors(detections, k) ==
  [detections EXCEPT ![k] = [detections[k] EXCEPT !.colors = <<>>]]

\* what clothing_detector.detect_clothing(image) returns when the alarm goes
\* off inside it: the TimeoutError is an Exception, caught by the try block
\* it is raised in
DetectionsOnTimeout(detections) ==
  {<<>>} \cup {WithoutColors(detections, k) : k \in 1..Len(detections)}

\* the photos sent to the servers: small ones, one wider than 640 and one
\* wider than 2000 pixels
ServerPhotos ==
  {Square(<<Gray, Blue, Blue, Gray>>, <<Box(<<"t","i","e">>, 70, 0, 0, 400, 400)>>),
   Square(<<Gray, Gray, Gray, Gray>>,
          <<Box(<<"p","e","r","s","o","n">>, 80, 0, 0, 200, 400), Box(<<"h","a","n","d","b","a","g">>, 50, 0, 0, 300, 300)>>),
   Strip(1, 33, Gray), Strip(1, 101, Gray)}

Bodies ==
  {JsonNull, JsonBool(TRUE), JsonBool(FALSE), JsonNumber(5),
   JsonString(<<"a","n"," ","i","m","a","g","e">>), JsonArray(<<JsonString(<<"i","m","a","g","e">>)>>),
   JsonArray(<<JsonNumber(1)>>), JsonObject(<<>>),
   JsonObject([other |-> JsonNumber(1)]),
   JsonObject([image |-> JsonNumber(5)]),
   JsonObject([image |-> JsonString(<<"i","n","v","a","l","i","d","_","b","a","s","e","6","4","_","d","a","t","a">>)])}
  \cup {JsonObject([image |-> Base64(photo)]) : photo \in ServerPhotos}

Models == {"None", "loaded"}

HttpDetectClothing ==
  /\ op = "idle"
  /\ pc.at = "none"
  /\ \E data \in Bodies, clothing_detector \in Models :
       \E response \in handle_detect_clothing(data, clothing_detector) :
         /\ op' = "start_http_server.handle_detect_clothing"
         /\ arg' = [data |-> data, model |-> clothing_detector]
         /\ ret' = response
         /\ UNCHANGED <<pending, earlier, caller_image, fields, alarm, pc>>

EnhancedAnalyzeColors ==
  /\ op = "idle"
  /\ pc.at = "none"
  /\ \E data \in Bodies, color_analyzer \in Models :
       \E response \in enhanced_analyze_colors(data, color_analyzer) :
         /\ op' = "start_enhanced_server.analyze_colors"
         /\ arg' = [data |-> data, model |-> color_analyzer]
         /\ ret' = response
         /\ UNCHANGED <<pending, earlier, caller_image, fields, alarm, pc>>

\* the request reaches the handler, which runs up to its first return or
\* into clothing_detector.detect_clothing(image), with the alarm set
WifiDetectClothing ==
  /\ op = "idle"
  /\ pc.at = "none"
  /\ \E data \in Bodies, clothing_detector \in Models, main_thread \in BOOLEAN :
       LET begin == wifi_detect_clothing_begin(data, clothing_detector, main_thread)
       IN  /\ op' = "start_wifi_server.detect_clothing"
           /\ arg' = [data |-> data, model |-> clothing_detector]
           /\ IF Passed(begin)
              THEN /\ caller_image' = begin.image
                   /\ alarm' = TRUE
                   /\ pc' = [at |-> "detect_clothing", timeout |-> "none",
                             detections |-> <<>>]
                   /\ ret' = <<>>
              ELSE /\ ret' = begin.response
                   /\ UNCHANGED <<caller_image, alarm, pc>>
           /\ UNCHANGED <<pending, earlier, fields>>

\* detections = clothing_detector.detect_clothing(image) returns
WifiDetectReturns ==
  /\ pc.at = "detect_clothing"
  /\ \E out \in SimpleClothingDetector_detect_clothing_in_place(caller_image) :
       /\ caller_image' = out.image
       /\ pc' = [pc EXCEPT !.at = "signal.alarm(0)", !.detections = out.detections]
  /\ UNCHANGED <<op, arg, ret, pending, earlier, fields, alarm>>

\* the 30 seconds are over while the detector runs: timeout_handler raises
\* TimeoutError inside detect_clothing, which catches it and returns
WifiAlarmInDetect ==
  /\ alarm
  /\ pc.at = "detect_clothing"
  /\ alarm' = FALSE
  /\ \E out \in SimpleClothingDetector_detect_clothing_in_place(caller_image) :
       \E detections \in DetectionsOnTimeout(out.detections) :
         /\ caller_image' = out.image
         /\ pc' = [at |-> "signal.alarm(0)", timeout |-> "detect_clothing",
                   detections |-> detections]
  /\ UNCHANGED <<op, arg, ret, pending, earlier, fields>>

\* the 30 seconds are over after the detector has returned and before the
\* alarm is cancelled: the handler catches the TimeoutError
WifiAlarmInHandler ==
  /\ alarm
  /\ pc.at = "signal.alarm(0)"
  /\ alarm' = FALSE
  /\ ret' = Failure(408, "Detection timeout. Please try with a smaller image.")
  /\ pc' = [pc EXCEPT !.at = "return", !.timeout = "handler"]
  /\ UNCHANGED <<op, arg, pending, earlier, caller_image, fields>>

\* signal.alarm(0) and the response with the items
WifiRespond ==
  /\ pc.at = "signal.alarm(0)"
  /\ alarm' = FALSE
  /\ ret' = ItemsFound(pc.detections)
  /\ pc' = [pc EXCEPT !.at = "return"]
  /\ UNCHANGED <<op, arg, pending, earlier, caller_image, fields>>

NextServer ==
  \/ HttpDetectClothing
  \/ EnhancedAnalyzeColors
  \/ WifiDetectClothing
  \/ WifiDetectReturns
  \/ WifiAlarmInDetect
  \/ WifiAlarmInHandler
  \/ WifiRespond
  \/ Return

SpecServer == Init /\ [][NextServer]_vars

-----------------------------------------------------------------------------
(* Properties of the request handlers                                      *)

ServerOps ==
  {"start_http_server.handle_detect_clothing",
   "start_enhanced_server.analyze_colors",
   "start_wifi_server.detect_clothing"}

\* the handler has answered the request
Responded == op \in ServerOps /\ ret # <<>>

HasImageKey(data) == data.kind = "object" /\ "image" \in DOMAIN data.members

Decodable(data) == HasImageKey(data) /\ data.members.image.kind = "base64"

NotInitialized ==
  {"AI models not loaded", "Color analyzer not initialized",
   "Clothing detector not initialized"}

\* C24: in the handlers of /detect-clothing and /analyze-colors the request
\* is validated before the model is looked at: a JSON body without the key
\* image, or with an image that cannot be decoded, is answered with 400 and
\* success false, with the model loaded or not; 500 for a model that is not
\* initialized is returned only for a decodable image while the model is
\* None; a response that is an error carries neither items nor
\* dominant_colors.
C24_ValidationBeforeModel ==
  Responded =>
    /\ ~Decodable(arg.data) => (ret.status = 400 /\ ~ret.body.success)
    /\ (ret.status = 500 /\ ret.body.error \in NotInitialized) =>
         (Decodable(arg.data) /\ arg.model = "None")
    /\ ret.status # 200 =>
         /\ ~ret.body.success
         /\ {"items", "dominant_colors"} \cap DOMAIN ret.body = {}

\* C30: if the alarm of 30 seconds goes off while
\* clothing_detector.detect_clothing runs, the request to /detect-clothing
\* is answered with 408 and the detection timeout error, not with 200; and
\* whenever the handler has returned, no alarm is pending.
C30_TimeoutAnswered ==
  /\ (op = "start_wifi_server.detect_clothing" /\ pc.at = "return"
        /\ pc.timeout = "detect_clothing") =>
       /\ ret.status = 408
       /\ ret.body.error = "Detection timeout. Please try with a smaller image."
  /\ pc.at \in {"none", "return"} => ~alarm

-----------------------------------------------------------------------------
(* Properties of the noise filter                                          *)

FilteringVariants ==
  {"ColorAnalyzer._get_dominant_colors", "FashionClassificationSystem._analyze_colors"}

\* neither near-black nor near-white: every channel above 20 and below 235
\* in ColorAnalyzer, above 15 and below 240 in FashionClassificationSystem
NotNoise(variant, c) ==
  IF variant = "ColorAnalyzer._get_dominant_colors"
  THEN (\A i \in 1..3 : c[i] > 20) /\ (\A i \in 1..3 : c[i] < 235)
  ELSE (\A i \in 1..3 : c[i] > 15) /\ (\A i \in 1..3 : c[i] < 240)

\* the pixels that are clustered: those that are not noise, and all of them
\* when fewer than 10 are not noise
Clustered(variant, pixels) ==
  LET kept == Select(pixels, LAMBDA c : NotNoise(variant, c))
  IN  IF Size(kept) < 10 THEN pixels ELSE kept

\* the lists a clustering of the pixels into at most 5 clusters can give,
\* with percentages relative to these pixels
ClusteringsOf(variant, pixels) ==
  LET outcomes == Sorted(pixels, Min(5, unique_count(pixels)), 5, TRUE)
  IN  TryExcept(IF variant = "ColorAnalyzer._get_dominant_colors"
                THEN WithNames(outcomes) ELSE WithFashionNames(outcomes), <<>>)

\* C25: the analysers that filter noise cluster the pixels that are neither
\* near-black nor near-white; when fewer than 10 such pixels are left, the
\* filter is skipped and all pixels of the region are clustered; the
\* percentages are relative to the pixels that were clustered.
C25_NoiseFilter ==
  (op \in FilteringVariants /\ Size(arg) > 0) =>
    ret \in ClusteringsOf(op, Clustered(op, cvtColor(arg)))

-----------------------------------------------------------------------------
(* Properties of the fit and of the two attribute paths                    *)

\* C26: the fit of a mask follows the ratio of the height H to the width W
\* of the bounding box of its true pixels, rows r0..r1 giving H = r1-r0+1
\* and columns c0..c1 giving W = c1-c0+1: tight when H/W > 2.5, loose when
\* H/W < 1.5, regular otherwise, and regular for a mask without true pixels.
C26_FitFromExtent ==
  (op = "EnhancedClothingDetector._predict_fit_heuristic" /\ ~arg.mask.none) =>
    LET cells == arg.mask.cells
        H == Greatest({p[1] : p \in cells}) - Smallest({p[1] : p \in cells}) + 1
        W == Greatest({p[2] : p \in cells}) - Smallest({p[2] : p \in cells}) + 1
    IN  ret = IF cells = {} THEN "regular"
              ELSE IF 2 * H > 5 * W THEN "tight"
              ELSE IF 2 * H < 3 * W THEN "loose"
              ELSE "regular"

\* the attributes the two paths are said to agree on
SharedAttributes == {"style", "season", "material", "pattern", "fit"}

\* C27: for the same image, mask and label, the attributes returned with
\* the MMFashion libraries importable and those returned without them have
\* the same style, season, material, pattern and fit, and both carry the
\* dominant_color key.
C27_PathsEquivalent ==
  op = "EnhancedClothingDetector._get_fashion_attributes" =>
    /\ "dominant_color" \in DOMAIN ret
    /\ \E other \in get_fashion_attributes(arg.image, arg.mask, arg.class_name,
                                           ~arg.MMFASHION_AVAILABLE) :
         \A k \in SharedAttributes :
           k \in DOMAIN ret /\ k \in DOMAIN other /\ ret[k] = other[k]

-----------------------------------------------------------------------------
(* Properties of the candidate ids                                         *)

\* the candidates whose id field is the given number
WithId(detected_items, item_id) ==
  {i \in 1..Len(detected_items) : detected_items[i].id = item_id}

\* C28: the candidates _detect_clothing_items returns carry the ids 1..n in
\* list order, whatever boxes were skipped, so analyze_selected_item with
\* item_id in 1..n analyses the one candidate whose id is item_id; with
\* item_id < 1 or item_id > n it answers success false with "Invalid item
\* selection" and no analysis.
C28_IdsConsecutive ==
  /\ op = "FashionClassificationSystem.analyze_clothing_image" =>
       LET detected_items == detect_clothing_items(arg.image, arg.yolo_model)
       IN  /\ \A i \in 1..Len(detected_items) : detected_items[i].id = i
           /\ ret.multiple_items => ret.items = detected_items
  /\ op = "FashionClassificationSystem.analyze_selected_item" =>
       IF arg.item_id \in 1..Len(arg.detected_items)
       THEN /\ ret.success
            /\ \E i \in WithId(arg.detected_items, arg.item_id) :
                 /\ WithId(arg.detected_items, arg.item_id) = {i}
                 /\ IsAnalysisOf(ret.analysis, arg.image, arg.detected_items[i])
       ELSE ret = [success |-> FALSE, error |-> "Invalid item selection"]

C28_Witness ==
  /\ op = "FashionClassificationSystem.analyze_selected_item"
  /\ Len(arg.image.boxes) = 6
  /\ Len(arg.detected_items) = 3
  /\ arg.item_id = 3
  /\ arg.detected_items[3].id = 3
  /\ ret.success
  /\ ret.analysis.detected_as = <<"H","a","n","d","b","a","g">>

\* an item_id below and one above the range are refused
C28_WitnessInvalid ==
  /\ op = "FashionClassificationSystem.analyze_selected_item"
  /\ arg.item_id = Len(arg.detected_items) + 1
  /\ ~ret.success

-----------------------------------------------------------------------------
(* The backends of EnhancedClothingDetector.  The host decides which       *)
(* libraries are importable (the module flags) and whether the weights of  *)
(* Mask R-CNN and of YOLO can be loaded; __init__ sets the three models    *)
(* from it, and detect_clothing chooses a backend from the models.         *)

\* DETECTRON2_AVAILABLE, MMFASHION_AVAILABLE and YOLO_AVAILABLE as set by the
\* imports; mask_rcnn_loads: DefaultPredictor(cfg) returns; yolo_loads:
\* YOLO('yolov8n.pt') returns
Hosts ==
  {host \in [DETECTRON2_AVAILABLE : BOOLEAN, MMFASHION_AVAILABLE : BOOLEAN,
             YOLO_AVAILABLE : BOOLEAN, mask_rcnn_loads : BOOLEAN,
             yolo_loads : BOOLEAN] :
     /\ host.mask_rcnn_loads => host.DETECTRON2_AVAILABLE
     /\ host.yolo_loads => host.YOLO_AVAILABLE}

setup_mask_rcnn(self, host) ==
  [self EXCEPT !.mask_rcnn_predictor =
     IF host.mask_rcnn_loads THEN "DefaultPredictor" ELSE "None"]

setup_mmfashion(self) == [self EXCEPT !.mmfashion_model = "placeholder"]

setup_fallback_detector(self, host) ==
  [self EXCEPT !.fallback_model =
     IF host.YOLO_AVAILABLE /\ host.yolo_loads THEN "yolov8n.pt" ELSE "None"]

initialize_models(self, host) ==
  LET with_mask_rcnn == IF host.DETECTRON2_AVAILABLE
                        THEN setup_mask_rcnn(self, host) ELSE self
      with_mmfashion == IF host.MMFASHION_AVAILABLE
                        THEN setup_mmfashion(with_mask_rcnn) ELSE with_mask_rcnn
  IN  IF ~host.DETECTRON2_AVAILABLE
      THEN setup_fallback_detector(with_mmfashion, host)
      ELSE with_mmfashion

\* __init__: the three models are None, then _initialize_models
EnhancedClothingDetector_init(host) ==
  initialize_models([mask_rcnn_predictor |-> "None", mmfashion_model |-> "None",
                     fallback_model |-> "None"], host)

\* the pixels of an image of blocks, by row and column
PixelGrid(image) ==
  [p \in (0..(Height(image) - 1)) \X (0..(Width(image) - 1)) |->
     image.blocks[<<p[1] \div BlockSize, p[2] \div BlockSize>>]]

\* the loop over the instances, from instance i on: the lists of detections
RECURSIVE MaskRcnnDetections(_, _, _, _)
MaskRcnnDetections(image, instances, i, mmfashion) ==
  IF i > Len(instances) THEN {<<>>}
  ELSE LET instance == instances[i]
           c == Corners(instance)
           mask_area == Cardinality(instance.mask.cells)
           rest == MaskRcnnDetections(image, instances, i + 1, mmfashion)
       IN  IF ~is_fashion_item(instance.class_name) \/ mask_area < 100
           THEN rest
           ELSE {<<[label |-> instance.class_name,
                    confidence |-> 10 * instance.conf,
                    bounding_box |-> [x1 |-> c[1], y1 |-> c[2], x2 |-> c[3], y2 |-> c[4],
                                      width |-> c[3] - c[1], height |-> c[4] - c[2]],
                    mask_area |-> mask_area,
                    colors |-> colors.value,
                    attributes |-> attributes,
                    segmentation_available |-> TRUE,
                    detection_method |-> "Mask R-CNN"]>> \o r :
                   colors \in EnhancedClothingDetector_analyze_masked_colors(
                                Masked(PixelGrid(image), instance.mask.cells)),
                   attributes \in get_fashion_attributes(PixelGrid(image), instance.mask,
                                                         instance.class_name, mmfashion),
                   r \in rest}

EnhancedClothingDetector_detect_with_mask_rcnn(image, self, host) ==
  MaskRcnnDetections(image, image.instances, 1,
                     self.mmfashion_model # "None" /\ host.MMFASHION_AVAILABLE)

\* one detection over the whole image, of confidence 0.5
EnhancedClothingDetector_detect_basic(image) ==
  {<<Detection("EnhancedClothingDetector", <<"c","l","o","t","h","i","n","g","_","i","t","e","m">>, 500,
               0, 0, Width(image), Height(image), colors)>> :
     colors \in RegionColors("EnhancedClothingDetector",
                             Crop(image, 0, 0, Width(image), Height(image)))}

EnhancedClothingDetector_detect_with_fallback(image, self) ==
  IF self.fallback_model # "None"
  THEN EnhancedClothingDetector_detect_with_yolo(image)
  ELSE EnhancedClothingDetector_detect_basic(image)

EnhancedClothingDetector_detect_clothing(image, self, host) ==
  IF self.mask_rcnn_predictor # "None"
  THEN EnhancedClothingDetector_detect_with_mask_rcnn(image, self, host)
  ELSE EnhancedClothingDetector_detect_with_fallback(image, self)

\* an instance of the predictor: its class, its score in hundredths, its box
\* in tenths of a pixel and its mask
Instance(class_name, conf, x1, y1, x2, y2, mask) ==
  [class_name |-> class_name, conf |-> conf, xyxy |-> <<x1, y1, x2, y2>>,
   mask |-> mask]

RectMask(r0, r1, c0, c1) == Mask((r0..r1) \X (c0..c1))

\* what YOLO and Mask R-CNN may report for an image of 1 x 2 blocks: nothing;
\* a tie for both; for Mask R-CNN a table, a person of a small mask and a
\* handbag, for YOLO a person
Reports ==
  {[boxes |-> <<>>, instances |-> <<>>],
   [boxes |-> <<Box(<<"t","i","e">>, 60, 100, 50, 300, 200)>>,
    instances |-> <<Instance(<<"t","i","e">>, 70, 102, 48, 305, 201, RectMask(5, 14, 15, 24))>>],
   [boxes |-> <<Box(<<"p","e","r","s","o","n">>, 80, 55, 0, 259, 200)>>,
    instances |-> <<Instance(<<"d","i","n","i","n","g"," ","t","a","b","l","e">>, 90, 0, 0, 400, 200, RectMask(0, 19, 0, 39)),
                    Instance(<<"p","e","r","s","o","n">>, 85, 50, 0, 260, 200, RectMask(0, 8, 5, 15)),
                    Instance(<<"h","a","n","d","b","a","g">>, 45, 200, 0, 400, 200, RectMask(0, 9, 20, 29))>>]}

\* images of two blocks side by side, under 1000 pixels
BackendPhotos ==
  {[rows |-> 1, cols |-> 2,
    blocks |-> [p \in {0} \X (0..1) |-> colors[p[2] + 1]],
    boxes |-> report.boxes, instances |-> report.instances] :
     colors \in {<<Gray, Gray>>, <<Blue, Gray>>, <<Dark, Light>>},
     report \in Reports}

-----------------------------------------------------------------------------
(* Construction of the detector on a host, and calls of detect_clothing    *)

EnhancedConstruct ==
  /\ op = "idle"
  /\ "EnhancedClothingDetector" \notin DOMAIN fields
  /\ \E host \in Hosts :
       /\ op' = "EnhancedClothingDetector.__init__"
       /\ arg' = [host |-> host]
       /\ ret' = <<>>
       /\ fields' = Update(fields, [EnhancedClothingDetector |->
                                      EnhancedClothingDetector_init(host),
                                    host |-> host])
       /\ UNCHANGED <<pending, earlier, caller_image, alarm, pc>>

EnhancedDetectClothing ==
  /\ op = "idle"
  /\ "EnhancedClothingDetector" \in DOMAIN fields
  /\ \E image \in BackendPhotos :
       \E detections \in EnhancedClothingDetector_detect_clothing(
                           image, fields.EnhancedClothingDetector, fields.host) :
         /\ op' = "EnhancedClothingDetector.detect_clothing"
         /\ arg' = [self |-> fields.EnhancedClothingDetector, image |-> image]
         /\ ret' = detections
         /\ UNCHANGED <<pending, earlier, caller_image, fields, alarm, pc>>

NextBackend ==
  \/ EnhancedConstruct
  \/ EnhancedDetectClothing
  \/ Return

SpecBackend == Init /\ [][NextBackend]_vars

-----------------------------------------------------------------------------
(* Properties of the choice of backend                                     *)

\* C29: detect_clothing uses one backend per call, by priority: Mask R-CNN
\* when its predictor is set; otherwise, whenever YOLO is importable and
\* loadable, the YOLO fallback; the basic path only when neither model is
\* available.
C29_BackendByPriority ==
  op = "EnhancedClothingDetector.detect_clothing" =>
    IF arg.self.mask_rcnn_predictor # "None"
    THEN ret \in EnhancedClothingDetector_detect_with_mask_rcnn(
                   arg.image, arg.self, fields.host)
    ELSE IF fields.host.YOLO_AVAILABLE /\ fields.host.yolo_loads
    THEN ret \in EnhancedClothingDetector_detect_with_yolo(arg.image)
    ELSE ret \in EnhancedClothingDetector_detect_basic(arg.image)

=============================================================================
